---------------------------- MODULE Spec2Model ----------------------------
(***************************************************************************)
(* Astralis Engine: procedural solar-system generation and orbital update. *)
(*                                                                         *)
(* Numbers.  The program computes in single-precision floats; the model    *)
(* computes in fixed point:                                                *)
(*   lengths, radii, coordinates : centi-units   (1.0f  = 100)             *)
(*   angles                      : milliradians  (1.0f  = 1000)            *)
(*   angular speeds              : milliradians per second                 *)
(*   colours, eccentricity       : thousandths   (1.0f  = 1000)            *)
(*   sin / cos values            : 1.0f = 100000                           *)
(*   time steps                  : whole seconds                           *)
(* Divisions truncate toward minus infinity (TLA+ \div).                   *)
(***************************************************************************)
EXTENDS Integers, Sequences, FiniteSets, TLC

VARIABLES
    assertions,     \* the standard library was built with precondition checks
    aborted,        \* the process was ended by a failed precondition check
    randCalls,      \* process-wide: number of rand() calls made so far
    initialized,    \* [manager -> SolarSystemManager::initialized_]
    sun,            \* [manager -> sun_: <<>> when null, else <<Sun>>]
    planets,        \* [manager -> PlanetManager::planets_]
    asteroidBelts,  \* [manager -> asteroidBelts_]
    planetaryRings, \* [manager -> planetaryRings_]
    genArgs,        \* [manager -> arguments of the last generation, or NoArgs]
    baseCounts,     \* [manager -> belt and ring counts as generated]
    densityLog,     \* [manager -> density factors passed since the generation]
    updateLog,      \* [manager -> order of the object updates of the last tick]
    lastOp,         \* [manager -> the most recent operation]
    prevOp,         \* [manager -> the operation before it]
    steps,          \* process-wide: number of operations carried out so far
    currentSeed,    \* [manager -> SolarSystemManager::currentSeed_]
    asteroidDensity, \* [manager -> SolarSystemManager::asteroidDensity_]
    ringDensity,    \* [manager -> SolarSystemManager::ringDensity_]
    placement,      \* a PlanetManager::generateSolarSystem call, step by step
    body,           \* a Planet used on its own: <<>> or <<Planet and its mesh>>
    maxRenderDistance, \* [manager -> PlanetManager::maxRenderDistance_, whole units]
    timeScale,      \* [manager -> SolarSystemManager::timeScale_]
    asteroidsVisible, \* [manager -> SolarSystemManager::asteroidsVisible_]
    ringsVisible,   \* [manager -> SolarSystemManager::ringsVisible_]
    input,          \* the InputManager's view of one key, and the frame loop
    camera          \* a Camera with its cinematic sequence

\* The members of SolarSystemManager that only the getters touch
members == <<currentSeed, asteroidDensity, ringDensity>>

\* The time scale and the visibility flags of SolarSystemManager
settings == <<timeScale, asteroidsVisible, ringsVisible>>

\* The solar system of each manager, with its history
system == <<assertions, aborted, randCalls, initialized, sun, planets,
            asteroidBelts, planetaryRings, genArgs, baseCounts, densityLog,
            updateLog, lastOp, prevOp>>

\* What generation, ticks, render passes and density changes leave alone
untouched == <<members, settings, input, camera, maxRenderDistance, placement, body>>

vars == <<system, steps, members, settings, input, camera, maxRenderDistance, placement, body>>

-----------------------------------------------------------------------------
(* Bounds of the model *)

\* Largest planetCount passed to generateSolarSystem
MaxPlanets == 3

\* Operations (generations, ticks, render passes, density changes) in a run
MaxSteps == 3

\* Planet counts passed to generateSolarSystem
PlanetCounts == {1, MaxPlanets}

\* Two managers living in one process
Runs == {1, 2}

\* System seeds passed to generateSolarSystem
Seeds == {7, 308, 1391}

\* Frame times, in seconds
DeltaTimes == {1, 7}

\* Camera positions
Cameras == {<<0, 0, 0>>, <<2000000, 0, 0>>}

\* Ends of the render distance slider, in whole units
RenderDistances == {100, 2000}

\* Values passed to setTimeScale
TimeScales == {0, 1, 2}

\* Density factors, in tenths
Densities == {0, 5, 10, 40}

NoArgs == [seed |-> -1, n |-> -1]

NoOp == [op |-> "none", arg |-> <<>>, regens |-> 0]

-----------------------------------------------------------------------------
(* Fixed-point arithmetic *)

Abs(x) == IF x < 0 THEN -x ELSE x

Max(a, b) == IF a >= b THEN a ELSE b

Min(a, b) == IF a <= b THEN a ELSE b

\* std::clamp(v, lo, hi)
Clamp(v, lo, hi) == IF v < lo THEN lo ELSE IF hi < v THEN hi ELSE v

RECURSIVE SqrtBisect(_, _, _)
SqrtBisect(v, lo, hi) ==
    IF hi - lo <= 1 THEN lo
    ELSE LET mid == (lo + hi) \div 2
         IN  IF mid * mid <= v THEN SqrtBisect(v, mid, hi)
                               ELSE SqrtBisect(v, lo, mid)

\* floor(sqrt(v)) for 0 <= v < 2^31
ISqrt(v) == SqrtBisect(v, 0, 46341)


\* 3.14159 and 2.0f * 3.14159f in milliradians (PlanetManager, AsteroidBelt,
\* PlanetaryRings); Moon.cpp uses 2.0f * M_PI, the same value at this precision.
Pi == 3142

TwoPi == 6283

\* sin on [0, pi/4], scaled by 100000: x - x^3/6 + x^5/120 - x^7/5040
SinSeries(x) ==
    LET x2 == x * x
        a == (x2 \div 100) * (x2 \div 100)
        ppm == 1000000 - x2 \div 6 + a \div 12000
                 - ((a \div 1000) * (x2 \div 100)) \div 5040000
    IN  (x * (ppm \div 10)) \div 1000

\* cos on [0, pi/4], scaled by 100000: 1 - x^2/2 + x^4/24 - x^6/720
CosSeries(x) ==
    LET x2 == x * x
        a == (x2 \div 100) * (x2 \div 100)
    IN  (1000000 - x2 \div 2 + a \div 2400
           - ((a \div 1000) * (x2 \div 100)) \div 720000) \div 10

\* sin and cos on the first quadrant [0, pi/2]
SinQ(x) == IF x <= Pi \div 4 THEN SinSeries(x) ELSE CosSeries(Max(Pi \div 2 - x, 0))

CosQ(x) == IF x <= Pi \div 4 THEN CosSeries(x) ELSE SinSeries(Max(Pi \div 2 - x, 0))

\* The quadrant (0..3) of an angle reduced to [0, 2 pi), and its offset in it
Quadrant(r) == Min((2 * r) \div Pi, 3)

InQuadrant(r) == Min(r - (Quadrant(r) * Pi) \div 2, Pi \div 2)

\* sinf(a) and cosf(a), scaled by 100000, for any angle a in milliradians
Sin(a) ==
    LET r == a % TwoPi
        x == InQuadrant(r)
    IN  CASE Quadrant(r) = 0 -> SinQ(x)
          [] Quadrant(r) = 1 -> CosQ(x)
          [] Quadrant(r) = 2 -> -SinQ(x)
          [] OTHER -> -CosQ(x)

Cos(a) ==
    LET r == a % TwoPi
        x == InQuadrant(r)
    IN  CASE Quadrant(r) = 0 -> CosQ(x)
          [] Quadrant(r) = 1 -> -SinQ(x)
          [] Quadrant(r) = 2 -> -CosQ(x)
          [] OTHER -> SinQ(x)

\* The scale of Sin and Cos
TrigOne == 100000

\* x * sin(a) and x * cos(a) for a length or coordinate x
MulSin(x, a) == (x * Sin(a)) \div TrigOne

MulCos(x, a) == (x * Cos(a)) \div TrigOne

\* atan on [0, 1] (argument and result scaled by 1000)
AtanUnit(q) ==
    (785 * q) \div 1000
        + (((q * (1000 - q)) \div 1000) * (2447 + (663 * q) \div 1000)) \div 10000

\* atan2f(y, x) in milliradians, in (-pi, pi]
Atan2(y, x) ==
    LET ax == Abs(x)
        ay == Abs(y)
        base == IF ax = 0 /\ ay = 0 THEN 0
                ELSE IF ay <= ax THEN AtanUnit((1000 * ay) \div ax)
                ELSE Pi \div 2 - AtanUnit((1000 * ax) \div ay)
        half == IF x < 0 THEN Pi - base ELSE base
    IN  IF y < 0 THEN -half ELSE half

\* glm::length of a vector of centi-units; large vectors are measured in
\* whole units to stay inside 32 bits
Length(v) ==
    LET m == Max(Abs(v[1]), Max(Abs(v[2]), Abs(v[3])))
    IN  IF m <= 20000
        THEN ISqrt(v[1] * v[1] + v[2] * v[2] + v[3] * v[3])
        ELSE LET a == v[1] \div 100
                 b == v[2] \div 100
                 c == v[3] \div 100
             IN  100 * ISqrt(a * a + b * b + c * c)

VecAdd(a, b) == <<a[1] + b[1], a[2] + b[2], a[3] + b[3]>>

VecSub(a, b) == <<a[1] - b[1], a[2] - b[2], a[3] - b[3]>>

Origin == <<0, 0, 0>>

-----------------------------------------------------------------------------
(* Random sources *)

\* Resolution of one generator draw: a draw is u / RngMod in [0, 1).
RngMod == 1024

\* The k-th output (k = 0, 1, ...) of a std::mt19937 constructed with `seed`,
\* scaled to 0 .. RngMod-1.  The generator is library code; what the program
\* relies on is that the output is a fixed function of (seed, k).
Mt(seed, k) ==
    LET h1 == (seed * 7919 + k * 104729 + 17) % 32749
        h2 == (h1 * h1 + 977 * k + 3) % 32719
        h3 == (h2 * h2 + 31 * h1 + 7) % 32717
    IN  (h3 \div 8) % RngMod

\* std::uniform_real_distribution<float>(a, b) applied to draw u: a + (b-a)*u
UReal(a, b, u) == a + ((b - a) * u) \div RngMod

\* std::uniform_int_distribution<int>(a, b) applied to draw u
UInt(a, b, u) == a + (u * (b - a + 1)) \div RngMod

\* The c-th value (c = 0, 1, ...) returned by rand() in this process.
Rand(c) == (c * c * 31 + c * 17 + 41) % 32768

-----------------------------------------------------------------------------
(* PlanetManager: generation *)

\* Base colour of a planet type (thousandths)
BaseColor(planetType) ==
    CASE planetType = 0 -> <<600, 500, 400>>
      [] planetType = 1 -> <<800, 600, 300>>
      [] planetType = 2 -> <<700, 800, 900>>
      [] planetType = 3 -> <<800, 700, 400>>
      [] OTHER -> <<500, 500, 500>>

\* The planet type for a distance band and a draw of typeDist
PlanetTypeAt(distance, typeDraw) ==
    IF distance < 5000
    THEN (IF UInt(0, 3, typeDraw) <= 1 THEN 0 ELSE 3)
    ELSE IF distance < 15000
    THEN UInt(0, 2, typeDraw)
    ELSE (IF UInt(0, 1, typeDraw) = 0 THEN 1 ELSE 2)

\* The radius for a distance band, a draw of radiusDist and a type
PlanetRadiusAt(distance, radiusDraw, planetType) ==
    LET drawn ==
            IF distance < 5000 THEN UReal(80, 250, radiusDraw)
            ELSE IF distance < 10000 THEN UReal(150, 400, radiusDraw)
            ELSE UReal(200, 800, radiusDraw)
    IN  IF planetType = 1 THEN (drawn * 22) \div 10
        ELSE IF planetType = 2 THEN (drawn * 14) \div 10
        ELSE drawn

\* Colour and rotation speed, once type and radius are known
PlanetPropertiesOf(seed, planetType, radius) ==
    [radius |-> radius,
     color |-> [c \in 1..3 |->
                  Clamp(BaseColor(planetType)[c] + UReal(-100, 100, Mt(seed, 1 + c)),
                        200, 1000)],
     rotationSpeed |->
        IF planetType = 1
        THEN ((UReal(100, 2000, Mt(seed, 5)) * 100) \div radius) \div 2
        ELSE (UReal(100, 2000, Mt(seed, 5)) * 100) \div radius,
     type |-> planetType]

\* The radius step of generatePlanetProperties
PlanetPropertiesOfType(seed, distance, planetType) ==
    PlanetPropertiesOf(seed, planetType,
                       PlanetRadiusAt(distance, Mt(seed, 1), planetType))

\* A variant of generatePlanetProperties that also reads the process-wide
\* rand() state
GeneratePlanetPropertiesRand(seed, distance) ==
    PlanetPropertiesOfType(seed + randCalls, distance,
                           PlanetTypeAt(distance, Mt(seed + randCalls, 0)))

\* PlanetManager::generatePlanetProperties(seed, distance): the draws come, in
\* order, from a generator constructed from `seed`: type, radius, three colour
\* variations, rotation speed
GeneratePlanetProperties(seed, distance) ==
    PlanetPropertiesOfType(seed, distance, PlanetTypeAt(distance, Mt(seed, 0)))

\* Number of moons the type and the scale allow
MaxMoons(type, scale) ==
    IF type = 1 THEN 4
    ELSE IF scale > 800 THEN 3
    ELSE IF scale > 500 THEN 2
    ELSE 1

\* Moon::Moon(radius, orbitRadius, orbitSpeed, color, resolution): rc is the
\* number of rand() calls made before this constructor runs
NewMoon(radius, orbitRadius, orbitSpeed, color, rc) ==
    [radius |-> radius, orbitRadius |-> orbitRadius, orbitSpeed |-> orbitSpeed,
     color |-> color, position |-> Origin, currentOrbitAngle |-> 0,
     orbitInclination |-> ((Rand(rc) % 100) - 50) * 2,
     rotationSpeed |-> 2000, currentRotation |-> 0]

\* A variant of the moon count that also reads the process-wide rand() state
MoonCountRand(seed, type, scale) ==
    UInt(0, MaxMoons(type, scale), Mt(seed + 54321 + randCalls, 0))

\* The moon count drawn in generateMoonsForPlanet
MoonCount(seed, type, scale) == UInt(0, MaxMoons(type, scale), Mt(seed + 54321, 0))

\* The i-th moon (i = 0, 1, ...) built by the loop of generateMoonsForPlanet.
\* With scale 1.0 the radius distribution is constructed with a > b.
MoonOf(seed, scale, i, rc) ==
    LET s == seed + 54321
        k == 1 + 6 * i
    IN  NewMoon(UReal(100, (scale * 3) \div 10, Mt(s, k)),
                UReal(scale * 2, scale * 6, Mt(s, k + 1)),
                UReal(500, 2000, Mt(s, k + 2)),
                [c \in 1..3 |-> (UReal(600, 1000, Mt(s, k + 2 + c)) * 8) \div 10],
                rc + i)

\* PlanetManager::generateMoonsForPlanet(planet, seed): the moons pushed to
\* planet.moons; each constructor calls rand() once
GenerateMoonsForPlanet(seed, type, scale, rc) ==
    [i \in 1..MoonCount(seed, type, scale) |-> MoonOf(seed, scale, i - 1, rc)]

\* Planet::Planet(radius, resolution, noise)
NewPlanet(radius, resolution) ==
    [radius |-> radius, resolution |-> resolution, heightScale |-> 1000,
     noiseFrequency |-> 10, noiseOctaves |-> 4, needsRegeneration |-> TRUE,
     meshResolution |-> 0, generations |-> 0]

\* Planet::generate(): a mesh is built only when needsRegeneration_ is set
PlanetGenerate(p) ==
    IF ~p.needsRegeneration THEN p
    ELSE [p EXCEPT !.meshResolution = p.resolution,
                   !.generations = p.generations + 1,
                   !.needsRegeneration = FALSE]

\* A variant of setResolution that marks the planet for regeneration without
\* storing the new resolution
SetResolutionNoStore(p, resolution) ==
    IF p.resolution # resolution
    THEN [p EXCEPT !.needsRegeneration = TRUE]
    ELSE p

\* Planet::setResolution(resolution)
SetResolution(p, resolution) ==
    IF p.resolution # resolution
    THEN [p EXCEPT !.resolution = Max(2, resolution), !.needsRegeneration = TRUE]
    ELSE p

\* Planet::setRadius(radius)
SetRadius(p, radius) ==
    IF p.radius # radius
    THEN [p EXCEPT !.radius = radius, !.needsRegeneration = TRUE]
    ELSE p

\* 1.0f in the unit of the cube coordinates, 2^-26
CoordOne == 67108864

\* The spacing of single-precision floats around a, a >= 0 counted in units
\* of 2^-26: a 24 bit mantissa
RECURSIVE FloatStep(_)
FloatStep(a) == IF a < 16777216 THEN 1 ELSE 2 * FloatStep(a \div 2)

\* num / den rounded to the nearest integer, ties to even; num >= 0, den > 0
RoundDiv(num, den) ==
    IF 2 * (num % den) < den THEN num \div den
    ELSE IF 2 * (num % den) > den THEN (num \div den) + 1
    ELSE (num \div den) + ((num \div den) % 2)

\* The single-precision value nearest to n units of 2^-26
RoundToFloat(n) ==
    IF n >= 0 THEN FloatStep(n) * RoundDiv(n, FloatStep(n))
    ELSE -(FloatStep(-n) * RoundDiv(-n, FloatStep(-n)))

\* static_cast<float>(x) / (resolution_ - 1) for 0 <= x <= d, d > 0
FloatDiv(x, d) ==
    FloatStep((x * CoordOne) \div d)
        * RoundDiv(x * CoordOne, d * FloatStep((x * CoordOne) \div d))

\* 2.0f * u - 1.0f of cubeToSphere
Coord(u) == RoundToFloat(2 * u - CoordOne)

\* The six values of Planet::Face, in the order of the enumeration
Faces == 0..5

\* A variant of the cube mapping whose top face spans half of its depth
CubePosHalfTop(face, x, y) ==
    CASE face = 0 -> <<CoordOne, -y, -x>>
      [] face = 1 -> <<-CoordOne, -y, x>>
      [] face = 2 -> <<x, CoordOne, (y + CoordOne) \div 2>>
      [] face = 3 -> <<x, -CoordOne, -y>>
      [] face = 4 -> <<x, -y, CoordOne>>
      [] face = 5 -> <<-x, -y, -CoordOne>>

\* cubePos of Planet::cubeToSphere(face, u, v) with x = 2u - 1, y = 2v - 1;
\* the sphere position and the height sample of a vertex are functions of
\* cubePos alone
CubePos(face, x, y) ==
    CASE face = 0 -> <<CoordOne, -y, -x>>
      [] face = 1 -> <<-CoordOne, -y, x>>
      [] face = 2 -> <<x, CoordOne, y>>
      [] face = 3 -> <<x, -CoordOne, -y>>
      [] face = 4 -> <<x, -y, CoordOne>>
      [] face = 5 -> <<-x, -y, -CoordOne>>

\* The value of 0.0f / 0, the u and v of a face of resolution 1
NaN == "NaN"

\* The vertices Planet::generateFace pushes for a face, rows of increasing y,
\* each vertex given by its cube point
FaceVertices(face, resolution) ==
    IF resolution <= 0 THEN <<>>
    ELSE IF resolution = 1 THEN <<NaN>>
    ELSE [m \in 1..(resolution * resolution) |->
            CubePos(face,
                    Coord(FloatDiv((m - 1) % resolution, resolution - 1)),
                    Coord(FloatDiv((m - 1) \div resolution, resolution - 1)))]

\* The c-th of the six indices of the quad whose top left vertex is topLeft
QuadIndex(topLeft, resolution, c) ==
    CASE c = 0 -> topLeft
      [] c = 1 -> topLeft + resolution
      [] c = 2 -> topLeft + 1
      [] c = 3 -> topLeft + 1
      [] c = 4 -> topLeft + resolution
      [] c = 5 -> topLeft + resolution + 1

\* A variant of the index loop that leaves the face offset out
FaceIndicesNoOffset(resolution, vertexOffset) ==
    IF resolution <= 1 THEN <<>>
    ELSE [m \in 1..(6 * (resolution - 1) * (resolution - 1)) |->
            QuadIndex((((m - 1) \div 6) \div (resolution - 1)) * resolution
                          + (((m - 1) \div 6) % (resolution - 1)),
                      resolution, (m - 1) % 6)]

\* The indices Planet::generateFace pushes for a face
FaceIndices(resolution, vertexOffset) ==
    IF resolution <= 1 THEN <<>>
    ELSE [m \in 1..(6 * (resolution - 1) * (resolution - 1)) |->
            QuadIndex(vertexOffset
                          + (((m - 1) \div 6) \div (resolution - 1)) * resolution
                          + (((m - 1) \div 6) % (resolution - 1)),
                      resolution, (m - 1) % 6)]

\* The vertex and index lists Planet::generate hands to the geometry: the six
\* faces one after the other, face f with vertexOffset f * resolution^2
RECURSIVE FacesFrom(_, _, _)
FacesFrom(face, resolution, mesh) ==
    IF face > 5 THEN mesh
    ELSE FacesFrom(face + 1, resolution,
            [vertices |-> mesh.vertices \o FaceVertices(face, resolution),
             indices |-> mesh.indices
                            \o FaceIndices(resolution,
                                           face * resolution * resolution)])

\* The mesh of Planet::generate for a resolution
GenerateMesh(resolution) ==
    FacesFrom(0, resolution, [vertices |-> <<>>, indices |-> <<>>])

\* The orbital speed of addPlanet: 0.5 / sqrt(distance * 0.1 + 1)
OrbitSpeed(distance) == 500000 \div ISqrt((distance + 1000) * 1000)

\* PlanetManager::addPlanet with a noise generator: the PlanetInstance that is
\* pushed to planets_
NewPlanetInstance(position, radius, color, rotationSpeed, seed, type, resolution, rc) ==
    LET planet == PlanetGenerate(
                    [NewPlanet(radius, resolution) EXCEPT
                        !.heightScale = UReal(100, 800, Mt(seed, 0)),
                        !.noiseFrequency = UReal(10, 50, Mt(seed, 1)),
                        !.noiseOctaves = UInt(3, 6, Mt(seed, 2))])
        distance == Length(position)
    IN  [planet |-> planet, position |-> position, scale |-> 100, color |-> color,
         rotationSpeed |-> rotationSpeed, currentRotation |-> 0, seed |-> seed,
         type |-> type, orbitRadius |-> distance, orbitSpeed |-> OrbitSpeed(distance),
         currentOrbitAngle |-> Atan2(position[3], position[1]),
         orbitCenter |-> Origin,
         orbitInclination |-> UReal(-100, 100, Mt(seed + 12345, 0)),
         orbitEccentricity |-> UReal(0, 200, Mt(seed + 12345, 1)),
         moons |-> GenerateMoonsForPlanet(seed, type, 100, rc)]

\* PlanetManager::addPlanet: st = [planets, rc]; without a noise generator the
\* call returns before anything is built
AddPlanet(st, hasNoise, position, radius, color, rotationSpeed, seed, type) ==
    IF ~hasNoise THEN st
    ELSE LET inst == NewPlanetInstance(position, radius, color, rotationSpeed,
                                       seed, type, 32, st.rc)
         IN  [planets |-> Append(st.planets, inst), rc |-> st.rc + Len(inst.moons)]

\* const int maxAttempts = 50
MaxAttempts == 50

\* The 5 unit buffer of the collision test
CollisionBuffer == 500

\* A variant of the candidate draw whose distance range reaches 150 units
CandidateWide(systemSeed, k) ==
    [distance |-> UReal(2500, 15000, Mt(systemSeed, k + 1)),
     position |-> <<MulCos(UReal(2500, 15000, Mt(systemSeed, k + 1)),
                           UReal(0, TwoPi, Mt(systemSeed, k))),
                    UReal(-1000, 1000, Mt(systemSeed, k + 2)),
                    MulSin(UReal(2500, 15000, Mt(systemSeed, k + 1)),
                           UReal(0, TwoPi, Mt(systemSeed, k)))>>]

\* One candidate of the placement loop: angle, distance and height are draws
\* k, k+1, k+2 of the generator constructed from systemSeed
Candidate(systemSeed, k) ==
    LET angle == UReal(0, TwoPi, Mt(systemSeed, k))
        distance == UReal(2500, 12000, Mt(systemSeed, k + 1))
        height == UReal(-1000, 1000, Mt(systemSeed, k + 2))
    IN  [distance |-> distance,
         position |-> <<MulCos(distance, angle), height, MulSin(distance, angle)>>]

\* The collision test against planetPositions: some existing planet is nearer
\* than radius + existingRadius + buffer
Collides(position, radius, placed) ==
    \E j \in 1..Len(placed) :
        Length(VecSub(position, placed[j].position))
            < radius + placed[j].radius + CollisionBuffer

\* A variant of the loop condition without the attempt limit
LoopContinuesUnbounded(validPosition, attempts) == ~validPosition

\* The condition of the do-while loop: !validPosition && attempts < maxAttempts
LoopContinues(validPosition, attempts) == ~validPosition /\ attempts < MaxAttempts

\* The do-while loop for planet i: the candidate that ends it
RECURSIVE TryPlace(_, _, _, _, _)

\* One pass of the do-while body with its candidate
TryCandidate(systemSeed, i, attempts, k, placed, cand) ==
    LET planetSeed == systemSeed + i * 1000 + attempts
        validPosition ==
            ~Collides(cand.position,
                      GeneratePlanetProperties(planetSeed, cand.distance).radius,
                      placed)
    IN  IF LoopContinues(validPosition, attempts + 1)
        THEN TryPlace(systemSeed, i, attempts + 1, k + 3, placed)
        ELSE [validPosition |-> validPosition, position |-> cand.position,
              attempts |-> attempts + 1, k |-> k + 3]

TryPlace(systemSeed, i, attempts, k, placed) ==
    TryCandidate(systemSeed, i, attempts, k, placed, Candidate(systemSeed, k))

\* The planet loop of generateSolarSystem from index i on: st = [planets, rc],
\* placed = planetPositions, k = draws taken so far from the system generator
RECURSIVE PlaceLoop(_, _, _, _, _, _, _)

\* A variant of the loop body in which the moons of the planet just added take
\* their count from the system generator, moving its position
PlaceFinalSharedStream(systemSeed, planetCount, i, t, final, placed, st, hasNoise) ==
    IF t.validPosition
    THEN PlaceLoop(systemSeed, planetCount, i + 1,
                   t.k + (IF hasNoise
                          THEN MoonCount(systemSeed + i * 1000, final.type, 100)
                          ELSE 0),
                   Append(placed, [position |-> t.position, radius |-> final.radius]),
                   AddPlanet(st, hasNoise, t.position, final.radius, final.color,
                             final.rotationSpeed, systemSeed + i * 1000, final.type),
                   hasNoise)
    ELSE PlaceLoop(systemSeed, planetCount, i + 1, t.k, placed, st, hasNoise)

\* The rest of the loop body for planet i once the do-while has ended with t
\* and the final properties have been generated
PlaceFinal(systemSeed, planetCount, i, t, final, placed, st, hasNoise) ==
    IF t.validPosition
    THEN PlaceLoop(systemSeed, planetCount, i + 1, t.k,
                   Append(placed, [position |-> t.position, radius |-> final.radius]),
                   AddPlanet(st, hasNoise, t.position, final.radius, final.color,
                             final.rotationSpeed, systemSeed + i * 1000, final.type),
                   hasNoise)
    ELSE PlaceLoop(systemSeed, planetCount, i + 1, t.k, placed, st, hasNoise)

\* The final properties use seed systemSeed + i * 1000 and the length of the
\* position
PlaceAt(systemSeed, planetCount, i, t, placed, st, hasNoise) ==
    PlaceFinal(systemSeed, planetCount, i, t,
               GeneratePlanetProperties(systemSeed + i * 1000, Length(t.position)),
               placed, st, hasNoise)

PlaceLoop(systemSeed, planetCount, i, k, placed, st, hasNoise) ==
    IF i >= planetCount
    THEN [planets |-> st.planets, rc |-> st.rc, placed |-> placed]
    ELSE PlaceAt(systemSeed, planetCount, i, TryPlace(systemSeed, i, 0, k, placed),
                 placed, st, hasNoise)

\* A variant of clear() that keeps the elements
VectorClearKeeps(v) == v

\* std::vector::clear(), as called by PlanetManager::clear(),
\* SolarSystemManager::clear(), generateAsteroidBelts and
\* generatePlanetaryRings
VectorClear(v) == <<>>

\* PlanetManager::generateSolarSystem(systemSeed, planetCount) on a manager
\* holding the planets ps: clear(), then the planet loop; the result is the new
\* planets_, the number of rand() calls made by then, and planetPositions as
\* the loop left it
GenerateSolarSystem(systemSeed, planetCount, hasNoise, ps, rc) ==
    PlaceLoop(systemSeed, planetCount, 0, 0, <<>>,
              [planets |-> VectorClear(ps), rc |-> rc], hasNoise)

-----------------------------------------------------------------------------
(* AsteroidBelt *)

\* The i-th asteroid (i = 0, 1, ...) of generateAsteroids: twelve draws each
\* from the generator constructed from the belt's seed
AsteroidOf(b, i) ==
    LET k == 12 * i
        orbitRadius == UReal(b.innerRadius, b.outerRadius, Mt(b.seed, k))
        orbitAngle == UReal(0, TwoPi, Mt(b.seed, k + 1))
        baseGray == UReal(300, 800, Mt(b.seed, k + 11))
    IN  [orbitRadius |-> orbitRadius,
         orbitAngle |-> orbitAngle,
         orbitSpeed |-> (UReal(100, 500, Mt(b.seed, k + 2)) * 100) \div orbitRadius,
         position |-> <<MulCos(orbitRadius, orbitAngle),
                        UReal(-200, 200, Mt(b.seed, k + 3)),
                        MulSin(orbitRadius, orbitAngle)>>,
         rotation |-> [c \in 1..3 |-> UReal(0, TwoPi, Mt(b.seed, k + 3 + c))],
         rotationSpeed |-> [c \in 1..3 |-> UReal(-2000, 2000, Mt(b.seed, k + 6 + c))],
         scale |-> UReal(10, 80, Mt(b.seed, k + 10)),
         color |-> <<(baseGray * 8) \div 10, (baseGray * 7) \div 10,
                     (baseGray * 6) \div 10>>]

\* AsteroidBelt::generateAsteroids(): asteroids_ is rebuilt with asteroidCount_
\* entries
GenerateAsteroids(b) ==
    [b EXCEPT !.asteroids = [i \in 1..b.asteroidCount |-> AsteroidOf(b, i - 1)]]

\* AsteroidBelt::AsteroidBelt(innerRadius, outerRadius, asteroidCount, seed)
NewAsteroidBelt(innerRadius, outerRadius, asteroidCount, seed) ==
    GenerateAsteroids([innerRadius |-> innerRadius, outerRadius |-> outerRadius,
                       asteroidCount |-> asteroidCount, seed |-> seed,
                       visible |-> TRUE, orbitSpeedMultiplier |-> 1000,
                       asteroids |-> <<>>])

\* A variant of AsteroidBelt::setDensity without the clamp
BeltSetDensityUnclamped(b, density) ==
    IF (b.asteroidCount * density) \div 10 # Len(b.asteroids)
    THEN GenerateAsteroids([b EXCEPT !.asteroidCount = (b.asteroidCount * density) \div 10])
    ELSE b

\* AsteroidBelt::setDensity(density), density in tenths: std::clamp to
\* [0.1, 2.0], then static_cast<int>(asteroidCount_ * density)
BeltSetDensity(b, density) ==
    LET d == Clamp(density, 1, 20)
        newCount == (b.asteroidCount * d) \div 10
    IN  IF newCount # Len(b.asteroids)
        THEN GenerateAsteroids([b EXCEPT !.asteroidCount = newCount])
        ELSE b

\* if (angle > 2 pi) angle -= 2 pi
WrapOnce(angle, turn) == IF angle > turn THEN angle - turn ELSE angle

\* AsteroidBelt::updateAsteroidPositions for one asteroid
UpdateAsteroid(a, multiplier, deltaTime) ==
    LET angle == WrapOnce(a.orbitAngle
                            + ((a.orbitSpeed * multiplier) \div 1000) * deltaTime,
                          TwoPi)
    IN  [a EXCEPT !.orbitAngle = angle,
                  !.position = <<MulCos(a.orbitRadius, angle), a.position[2],
                                 MulSin(a.orbitRadius, angle)>>,
                  !.rotation = [c \in 1..3 |->
                                  a.rotation[c] + a.rotationSpeed[c] * deltaTime]]

\* AsteroidBelt::update(deltaTime)
BeltUpdate(b, deltaTime) ==
    IF ~b.visible THEN b
    ELSE [b EXCEPT !.asteroids =
            [i \in 1..Len(b.asteroids) |->
                UpdateAsteroid(b.asteroids[i], b.orbitSpeedMultiplier, deltaTime)]]

-----------------------------------------------------------------------------
(* PlanetaryRings *)

\* A variant of the particle in which every particle moves at the drawn speed,
\* whatever its orbit radius
RingParticleOfFlat(g, i) ==
    LET k == 7 * i
        orbitRadius == UReal(g.innerRadius, g.outerRadius, Mt(g.seed, k))
        orbitAngle == UReal(0, TwoPi, Mt(g.seed, k + 1))
    IN  [orbitRadius |-> orbitRadius,
         orbitAngle |-> orbitAngle,
         orbitSpeed |-> UReal(500, 2000, Mt(g.seed, k + 2)),
         position |-> VecAdd(g.planetPosition,
                             <<MulCos(orbitRadius, orbitAngle),
                               UReal(-20, 20, Mt(g.seed, k + 3)),
                               MulSin(orbitRadius, orbitAngle)>>),
         size |-> UReal(2, 10, Mt(g.seed, k + 4)),
         color |-> <<600, 600, 600>>,
         alpha |-> UReal(300, 800, Mt(g.seed, k + 6))]

\* The i-th particle (i = 0, 1, ...) of generateRingParticles: seven draws each
RingParticleOf(g, i) ==
    LET k == 7 * i
        orbitRadius == UReal(g.innerRadius, g.outerRadius, Mt(g.seed, k))
        orbitAngle == UReal(0, TwoPi, Mt(g.seed, k + 1))
        normalizedRadius ==
            ((orbitRadius - g.innerRadius) * 1000) \div (g.outerRadius - g.innerRadius)
        colorVar == UReal(600, 1000, Mt(g.seed, k + 5))
    IN  [orbitRadius |-> orbitRadius,
         orbitAngle |-> orbitAngle,
         orbitSpeed |-> (UReal(500, 2000, Mt(g.seed, k + 2)) * 1000)
                            \div (1000 + 2 * normalizedRadius),
         position |-> VecAdd(g.planetPosition,
                             <<MulCos(orbitRadius, orbitAngle),
                               UReal(-20, 20, Mt(g.seed, k + 3)),
                               MulSin(orbitRadius, orbitAngle)>>),
         size |-> UReal(2, 10, Mt(g.seed, k + 4)),
         color |-> IF 1000 - normalizedRadius > 500
                   THEN <<(colorVar * 90) \div 100, (colorVar * 95) \div 100, colorVar>>
                   ELSE <<(colorVar * 8) \div 10, (colorVar * 6) \div 10,
                          (colorVar * 4) \div 10>>,
         alpha |-> UReal(300, 800, Mt(g.seed, k + 6))]

\* PlanetaryRings::generateRingParticles()
GenerateRingParticles(g) ==
    [g EXCEPT !.particles = [i \in 1..g.particleCount |-> RingParticleOf(g, i - 1)]]

\* PlanetaryRings::PlanetaryRings(planetPosition, planetRadius, innerRadius,
\* outerRadius, particleCount, seed)
NewPlanetaryRings(planetPosition, planetRadius, innerRadius, outerRadius, particleCount, seed) ==
    GenerateRingParticles([planetPosition |-> planetPosition,
                           planetRadius |-> planetRadius,
                           innerRadius |-> innerRadius, outerRadius |-> outerRadius,
                           particleCount |-> particleCount, seed |-> seed,
                           visible |-> TRUE, orbitSpeedMultiplier |-> 1000,
                           opacityMultiplier |-> 1000, particles |-> <<>>])

\* PlanetaryRings::setDensity(density), density in tenths: std::clamp to
\* [0.1, 3.0], then static_cast<int>(particleCount_ * density)
RingSetDensity(g, density) ==
    LET d == Clamp(density, 1, 30)
        newCount == (g.particleCount * d) \div 10
    IN  IF newCount # Len(g.particles)
        THEN GenerateRingParticles([g EXCEPT !.particleCount = newCount])
        ELSE g

\* PlanetaryRings::updateParticlePositions for one particle
UpdateRingParticle(q, planetPosition, multiplier, deltaTime) ==
    LET angle == WrapOnce(q.orbitAngle
                            + ((q.orbitSpeed * multiplier) \div 1000) * deltaTime,
                          TwoPi)
    IN  [q EXCEPT !.orbitAngle = angle,
                  !.position = VecAdd(planetPosition,
                                      <<MulCos(q.orbitRadius, angle),
                                        q.position[2] - planetPosition[2],
                                        MulSin(q.orbitRadius, angle)>>)]

\* PlanetaryRings::update(deltaTime)
RingUpdate(g, deltaTime) ==
    IF ~g.visible THEN g
    ELSE [g EXCEPT !.particles =
            [i \in 1..Len(g.particles) |->
                UpdateRingParticle(g.particles[i], g.planetPosition,
                                   g.orbitSpeedMultiplier, deltaTime)]]

-----------------------------------------------------------------------------
(* Sun *)

\* Sun::calculateTemperatureColor(temperature), temperature in kelvin
CalculateTemperatureColor(temperature) ==
    IF temperature < 3500 THEN <<1000, 300, 100>>
    ELSE IF temperature < 5000 THEN <<1000, 600, 200>>
    ELSE IF temperature < 6000 THEN <<1000, 900, 700>>
    ELSE IF temperature < 7500 THEN <<1000, 1000, 1000>>
    ELSE IF temperature < 10000 THEN <<800, 900, 1000>>
    ELSE <<600, 700, 1000>>

\* Sun::Sun() with its default arguments; currentRotation is in thousandths
\* of a degree, rotationSpeed in thousandths of a degree per second
NewSun ==
    [position |-> Origin, radius |-> 1000, color |-> <<1000, 800, 400>>,
     temperature |-> 5778, intensity |-> 1000, currentRotation |-> 0,
     rotationSpeed |-> 10000, pulsePhase |-> 0, pulseIntensity |-> 100,
     solarFlareIntensity |-> 0, solarFlarePhase |-> 0, baseIntensity |-> 1000,
     currentLightIntensity |-> 1000, resolution |-> 0]

\* SolarSystemManager::setupSun(systemSeed): setRadius, setColor,
\* setTemperature, then Sun::initialize(64), which replaces the colour by the
\* temperature colour
SetupSun(sn, systemSeed) ==
    LET sunSize == UReal(1200, 1600, Mt(systemSeed, 0))
        temperature == UReal(5500, 6000, Mt(systemSeed, 1))
    IN  [sn EXCEPT !.radius = sunSize,
                   !.temperature = temperature,
                   !.color = CalculateTemperatureColor(temperature),
                   !.resolution = 64]

\* Sun::update(deltaTime)
SunUpdate(sn, deltaTime) ==
    LET rotation == WrapOnce(sn.currentRotation + sn.rotationSpeed * deltaTime,
                             360000)
        pulse == WrapOnce(sn.pulsePhase + deltaTime * 2000, TwoPi)
        flarePhase == WrapOnce(sn.solarFlarePhase + deltaTime * 500, TwoPi)
        flareBase == Sin(flarePhase) \div 200 + 500
        flareNoise == (Sin((flarePhase * 37) \div 10) * 3) \div 1000
        flare == Max(0, Min(1000, flareBase + flareNoise))
        activityMultiplier == 1000 + (flare * 4) \div 10
        pulseMultiplier == 1000 + (sn.pulseIntensity * Sin(pulse)) \div TrigOne
    IN  [sn EXCEPT !.currentRotation = rotation,
                   !.pulsePhase = pulse,
                   !.solarFlarePhase = flarePhase,
                   !.solarFlareIntensity = flare,
                   !.currentLightIntensity =
                        (((sn.baseIntensity * activityMultiplier) \div 1000)
                            * pulseMultiplier) \div 1000]

-----------------------------------------------------------------------------
(* PlanetManager: update *)

\* Moon::update(deltaTime, planetPosition)
MoonUpdate(m, deltaTime, planetPosition) ==
    LET angle == WrapOnce(m.currentOrbitAngle + m.orbitSpeed * deltaTime, TwoPi)
        rotation == WrapOnce(m.currentRotation + m.rotationSpeed * deltaTime, TwoPi)
    IN  [m EXCEPT !.currentOrbitAngle = angle,
                  !.currentRotation = rotation,
                  !.position =
                      VecAdd(planetPosition,
                             <<MulCos(m.orbitRadius, angle),
                               MulSin(MulSin(m.orbitRadius, m.orbitInclination), angle),
                               MulSin(m.orbitRadius, angle)>>)]

\* The part of the loop body of PlanetManager::update that moves the planet
\* itself: rotation, orbit angle, eccentricity, inclination, position
MovePlanet(p, deltaTime) ==
    LET rotation == WrapOnce(p.currentRotation + p.rotationSpeed * deltaTime, TwoPi)
        angle == WrapOnce(p.currentOrbitAngle + p.orbitSpeed * deltaTime, TwoPi)
        adjustedRadius ==
            p.orbitRadius
                - (p.orbitRadius * ((p.orbitEccentricity * Cos(angle)) \div 1000))
                    \div TrigOne
        x == MulCos(adjustedRadius, angle)
        z == MulSin(adjustedRadius, angle)
        y == IF p.orbitInclination # 0 THEN -MulSin(z, p.orbitInclination) ELSE 0
        newZ == IF p.orbitInclination # 0 THEN MulCos(z, p.orbitInclination) ELSE z
    IN  [p EXCEPT !.currentRotation = rotation,
                  !.currentOrbitAngle = angle,
                  !.position = VecAdd(p.orbitCenter, <<x, y, newZ>>)]

\* An entry of the record of one tick: which object was updated
Step(kind, index, sub) == [kind |-> kind, index |-> index, sub |-> sub]

\* The moon loop of PlanetManager::update for planet i, from moon j on
RECURSIVE MoonLoop(_, _, _, _, _, _)
MoonLoop(moons, j, deltaTime, planetPosition, i, log) ==
    IF j > Len(moons) THEN [moons |-> moons, log |-> log]
    ELSE MoonLoop([moons EXCEPT ![j] = MoonUpdate(moons[j], deltaTime, planetPosition)],
                  j + 1, deltaTime, planetPosition, i,
                  Append(log, Step("moon", i, j)))

\* The planet of one iteration with its moons replaced
WithMoons(moved, ml) == [planet |-> [moved EXCEPT !.moons = ml.moons], log |-> ml.log]

\* The moon loop of one iteration, fed with the planet as already moved
UpdateMoonsOf(moved, deltaTime, i, log) ==
    WithMoons(moved, MoonLoop(moved.moons, 1, deltaTime, moved.position, i,
                              Append(log, Step("planet", i, 0))))

\* A variant of the planet loop body that updates the moons first, from the
\* position the planet had before the tick
UpdatePlanetInstanceMoonsFirst(p, deltaTime, i, log) ==
    [planet |-> [MovePlanet(p, deltaTime) EXCEPT
                    !.moons = MoonLoop(p.moons, 1, deltaTime, p.position, i, log).moons],
     log |-> Append(MoonLoop(p.moons, 1, deltaTime, p.position, i, log).log,
                    Step("planet", i, 0))]

\* One iteration of the planet loop of PlanetManager::update: the planet
\* moves, then its moons are updated with the planet's new position
UpdatePlanetInstance(p, deltaTime, i, log) ==
    UpdateMoonsOf(MovePlanet(p, deltaTime), deltaTime, i, log)

\* PlanetManager::update(deltaTime) from planet i on
RECURSIVE PlanetLoop(_, _, _, _)
PlanetLoop(ps, i, deltaTime, log) ==
    IF i > Len(ps) THEN [planets |-> ps, log |-> log]
    ELSE LET u == UpdatePlanetInstance(ps[i], deltaTime, i, log)
         IN  PlanetLoop([ps EXCEPT ![i] = u.planet], i + 1, deltaTime, u.log)

\* The belt loop and the ring loop of SolarSystemManager::update
RECURSIVE BeltLoop(_, _, _, _)
BeltLoop(bs, i, deltaTime, log) ==
    IF i > Len(bs) THEN [belts |-> bs, log |-> log]
    ELSE BeltLoop([bs EXCEPT ![i] = BeltUpdate(bs[i], deltaTime)], i + 1, deltaTime,
                  Append(log, Step("belt", i, 0)))

RECURSIVE RingLoop(_, _, _, _)
RingLoop(gs, i, deltaTime, log) ==
    IF i > Len(gs) THEN [rings |-> gs, log |-> log]
    ELSE RingLoop([gs EXCEPT ![i] = RingUpdate(gs[i], deltaTime)], i + 1, deltaTime,
                  Append(log, Step("rings", i, 0)))

\* The four stages of SolarSystemManager::update on
\* sys = [sun, planets, belts, rings, log]
SunStage(sys, deltaTime) ==
    [sys EXCEPT !.sun = SunUpdate(sys.sun, deltaTime),
                !.log = <<Step("sun", 0, 0)>>]

PlanetStageOf(sys, pl) == [sys EXCEPT !.planets = pl.planets, !.log = pl.log]

PlanetStage(sys, deltaTime) ==
    PlanetStageOf(sys, PlanetLoop(sys.planets, 1, deltaTime, sys.log))

BeltStageOf(sys, bl) == [sys EXCEPT !.belts = bl.belts, !.log = bl.log]

BeltStage(sys, deltaTime) ==
    BeltStageOf(sys, BeltLoop(sys.belts, 1, deltaTime, sys.log))

RingStageOf(sys, rl) == [sys EXCEPT !.rings = rl.rings, !.log = rl.log]

RingStage(sys, deltaTime) ==
    RingStageOf(sys, RingLoop(sys.rings, 1, deltaTime, sys.log))

\* The stages of SolarSystemManager::update on an initialized manager, given
\* the scaled time: sun, planets with their moons, belts, rings, in that order
SystemUpdate(sn, ps, bs, gs, deltaTime) ==
    RingStage(BeltStage(PlanetStage(SunStage([sun |-> sn, planets |-> ps,
                                              belts |-> bs, rings |-> gs,
                                              log |-> <<>>],
                                             deltaTime),
                                    deltaTime),
                        deltaTime),
              deltaTime)

-----------------------------------------------------------------------------
(* PlanetManager: level of detail *)

\* maxRenderDistance_, in whole units
MaxRenderDistance == 1000000000

\* highLOD_, mediumLOD_, lowLOD_
HighLOD == 64

MediumLOD == 32

LowLOD == 16

\* lodDistance1_, lodDistance2_
LodDistance1 == 100

LodDistance2 == 500

\* A level of detail chosen from the distance alone
CalculateLODByDistance(distance, planetRadius) ==
    IF distance < LodDistance1 * 100 THEN HighLOD
    ELSE IF distance < LodDistance2 * 100 THEN MediumLOD
    ELSE LowLOD

\* PlanetManager::calculateLOD(distance, planetRadius):
\* effectiveDistance = distance / (planetRadius + 1.0f)
CalculateLOD(distance, planetRadius) ==
    IF distance < LodDistance1 * (planetRadius + 100) THEN HighLOD
    ELSE IF distance < LodDistance2 * (planetRadius + 100) THEN MediumLOD
    ELSE LowLOD

\* distance > maxRenderDistance_, distance in hundredths
Beyond(distance, maxDistance) ==
    \/ distance \div 100 > maxDistance
    \/ distance \div 100 = maxDistance /\ distance % 100 > 0

\* The level-of-detail part of the loop body of PlanetManager::render
RenderPlanet(p, cameraPos, maxDistance) ==
    LET distance == Length(VecSub(p.position, cameraPos))
        targetLOD == CalculateLOD(distance, p.planet.radius)
    IN  IF Beyond(distance, maxDistance) THEN p
        ELSE IF p.planet.resolution # targetLOD
        THEN [p EXCEPT !.planet = PlanetGenerate(SetResolution(p.planet, targetLOD))]
        ELSE p

\* PlanetManager::render with a shader and a camera at cameraPos
PlanetManagerRender(ps, cameraPos, maxDistance) ==
    [i \in 1..Len(ps) |-> RenderPlanet(ps[i], cameraPos, maxDistance)]

\* Sum of f[1..n]
RECURSIVE SumTo(_, _)
SumTo(f, n) == IF n = 0 THEN 0 ELSE f[n] + SumTo(f, n - 1)

\* Number of meshes built so far for the planets of a list
Generations(ps) == SumTo([i \in 1..Len(ps) |-> ps[i].planet.generations], Len(ps))

-----------------------------------------------------------------------------
(* SolarSystemManager: generation *)

\* The range of asteroidCountDist, (200, 800) in the source, scaled down
MinAsteroidCount == 2

MaxAsteroidCount == 5

\* The range of particleCountDist, (500, 2000) in the source, scaled down
MinParticleCount == 3

MaxParticleCount == 6

\* SolarSystemManager::generateAsteroidBelts(systemSeed) with asteroidBelts_
\* holding bs
GenerateAsteroidBelts(systemSeed, bs) ==
    LET s == systemSeed + 1000
        beltCount == UInt(1, 3, Mt(s, 0))
    IN  VectorClear(bs) \o [j \in 1..beltCount |->
            LET i == j - 1
                innerRadius == UReal(4000, 8000, Mt(s, 1 + 3 * i)) + i * 5000
                outerRadius == innerRadius + UReal(1500, 3000, Mt(s, 2 + 3 * i))
                asteroidCount ==
                    UInt(MinAsteroidCount, MaxAsteroidCount, Mt(s, 3 + 3 * i))
            IN  NewAsteroidBelt(innerRadius, outerRadius, asteroidCount,
                                systemSeed + i)]

\* gasGiantDistances and gasGiantRadii of generatePlanetaryRings
GasGiantDistances == <<6000, 9500, 13000>>

GasGiantRadii == <<800, 1200, 1000>>

\* The loop of generatePlanetaryRings from index i on; k = draws taken so far
RECURSIVE RingsLoop(_, _, _, _)
RingsLoop(systemSeed, i, k, rings) ==
    IF i >= Len(GasGiantDistances) THEN rings
    ELSE LET s == systemSeed + 2000
         IN  IF UReal(0, 1000, Mt(s, k)) > 400
             THEN LET planetRadius == GasGiantRadii[i + 1]
                      innerRadius == (planetRadius * 15) \div 10
                      outerRadius == innerRadius + UReal(200, 800, Mt(s, k + 1))
                      particleCount ==
                          UInt(MinParticleCount, MaxParticleCount, Mt(s, k + 2))
                  IN  RingsLoop(systemSeed, i + 1, k + 3,
                        Append(rings,
                               NewPlanetaryRings(<<GasGiantDistances[i + 1], 0, 0>>,
                                                 planetRadius, innerRadius,
                                                 outerRadius, particleCount,
                                                 systemSeed + i)))
             ELSE RingsLoop(systemSeed, i + 1, k + 1, rings)

\* SolarSystemManager::generatePlanetaryRings(systemSeed) with planetaryRings_
\* holding gs
GeneratePlanetaryRings(systemSeed, gs) == RingsLoop(systemSeed, 0, 0, VectorClear(gs))

-----------------------------------------------------------------------------
(* The state machine *)

\* The content of a member that no constructor and no method assigns
Indeterminate == "indeterminate"

\* PlanetManager::generateSolarSystem has not been entered
IdlePlacement ==
    [pc |-> "idle", seed |-> 0, n |-> 0, i |-> 0, attempts |-> 0, k |-> 0,
     placed |-> <<>>, added |-> <<>>, tried |-> <<>>]

Init ==
    /\ assertions \in BOOLEAN
    /\ aborted = FALSE
    /\ randCalls = 0
    /\ initialized = [r \in Runs |-> FALSE]
    /\ sun = [r \in Runs |-> <<>>]
    /\ planets = [r \in Runs |-> <<>>]
    /\ asteroidBelts = [r \in Runs |-> <<>>]
    /\ planetaryRings = [r \in Runs |-> <<>>]
    /\ genArgs = [r \in Runs |-> NoArgs]
    /\ baseCounts = [r \in Runs |-> [belts |-> <<>>, rings |-> <<>>]]
    /\ densityLog = [r \in Runs |-> [belts |-> <<>>, rings |-> <<>>]]
    /\ updateLog = [r \in Runs |-> <<>>]
    /\ lastOp = [r \in Runs |-> NoOp]
    /\ prevOp = [r \in Runs |-> NoOp]
    /\ steps = 0
    /\ currentSeed = [r \in Runs |-> Indeterminate]
    /\ asteroidDensity = [r \in Runs |-> Indeterminate]
    /\ ringDensity = [r \in Runs |-> Indeterminate]
    /\ placement = IdlePlacement
    /\ body = <<>>
    /\ maxRenderDistance = [r \in Runs |-> MaxRenderDistance]
    /\ timeScale = [r \in Runs |-> 1]
    /\ asteroidsVisible = [r \in Runs |-> TRUE]
    /\ ringsVisible = [r \in Runs |-> TRUE]
    /\ input = [keyState |-> "Released", previousKeyState |-> "Released",
                down |-> FALSE, pc |-> "pollEvents", events |-> <<>>, seen |-> <<>>]
    /\ camera = [currentMode |-> "FREE_FLY", cinematicPlaying |-> FALSE,
                 cinematicTime |-> 0, cinematicDuration |-> 0,
                 cinematicKeyframes |-> <<>>, last |-> "Camera"]

\* Bookkeeping of an operation on manager r
Record(r, op, arg, regens) ==
    /\ prevOp' = [prevOp EXCEPT ![r] = lastOp[r]]
    /\ lastOp' = [lastOp EXCEPT ![r] = [op |-> op, arg |-> arg, regens |-> regens]]

\* SolarSystemManager::initialize(noise); hasNoise = the pointer is not null
Initialize(r, hasNoise) ==
    /\ ~aborted
    /\ ~initialized[r]
    /\ IF ~hasNoise THEN UNCHANGED vars
       ELSE /\ initialized' = [initialized EXCEPT ![r] = TRUE]
            /\ sun' = [sun EXCEPT ![r] = <<NewSun>>]
            /\ planets' = [planets EXCEPT ![r] = <<>>]
            /\ UNCHANGED <<untouched, assertions, aborted, randCalls, asteroidBelts,
                           planetaryRings, genArgs, baseCounts, densityLog,
                           updateLog, lastOp, prevOp, steps>>

\* Some moon exists: a uniform_real_distribution was constructed with a > b
HasMoon(ps) == \E i \in 1..Len(ps) : Len(ps[i].moons) > 0

\* The state a generation leaves: st = planets and rand() count
Generated(r, systemSeed, planetCount, st, belts, rings) ==
    IF assertions /\ HasMoon(st.planets)
    THEN /\ aborted' = TRUE
         /\ UNCHANGED <<untouched, assertions, randCalls, initialized, sun, planets,
                        asteroidBelts, planetaryRings, genArgs, baseCounts,
                        densityLog, updateLog, lastOp, prevOp, steps>>
    ELSE /\ sun' = [sun EXCEPT ![r] = <<SetupSun(sun[r][1], systemSeed)>>]
         /\ planets' = [planets EXCEPT ![r] = st.planets]
         /\ randCalls' = st.rc
         /\ asteroidBelts' = [asteroidBelts EXCEPT ![r] = belts]
         /\ planetaryRings' = [planetaryRings EXCEPT ![r] = rings]
         /\ genArgs' = [genArgs EXCEPT ![r] = [seed |-> systemSeed, n |-> planetCount]]
         /\ baseCounts' = [baseCounts EXCEPT ![r] =
                [belts |-> [i \in 1..Len(belts) |-> Len(belts[i].asteroids)],
                 rings |-> [i \in 1..Len(rings) |-> Len(rings[i].particles)]]]
         /\ densityLog' = [densityLog EXCEPT ![r] = [belts |-> <<>>, rings |-> <<>>]]
         /\ updateLog' = [updateLog EXCEPT ![r] = <<>>]
         /\ steps' = steps + 1
         /\ Record(r, "generate", <<systemSeed, planetCount>>, 0)
         /\ UNCHANGED <<untouched, assertions, aborted, initialized>>

\* SolarSystemManager::generateSolarSystem(systemSeed, planetCount): on a
\* manager that is not initialized the call returns at once; otherwise
\* clear(), setupSun, PlanetManager::generateSolarSystem,
\* generateAsteroidBelts, generatePlanetaryRings
Generate(r, systemSeed, planetCount) ==
    /\ ~aborted
    /\ steps < MaxSteps
    /\ IF ~initialized[r]
       THEN /\ Record(r, "generate", <<>>, 0)
            /\ steps' = steps + 1
            /\ UNCHANGED <<untouched, assertions, aborted,
                           randCalls, initialized, sun, planets, asteroidBelts,
                           planetaryRings, genArgs, baseCounts, densityLog,
                           updateLog>>
       ELSE Generated(r, systemSeed, planetCount,
                      GenerateSolarSystem(systemSeed, planetCount, TRUE,
                                          VectorClear(planets[r]), randCalls),
                      GenerateAsteroidBelts(systemSeed, VectorClear(asteroidBelts[r])),
                      GeneratePlanetaryRings(systemSeed,
                                             VectorClear(planetaryRings[r])))

\* The state a tick leaves
Updated(r, deltaTime, u) ==
    /\ sun' = [sun EXCEPT ![r] = <<u.sun>>]
    /\ planets' = [planets EXCEPT ![r] = u.planets]
    /\ asteroidBelts' = [asteroidBelts EXCEPT ![r] = u.belts]
    /\ planetaryRings' = [planetaryRings EXCEPT ![r] = u.rings]
    /\ updateLog' = [updateLog EXCEPT ![r] = u.log]
    /\ steps' = steps + 1
    /\ Record(r, "update", <<deltaTime>>, 0)
    /\ UNCHANGED <<untouched, assertions, aborted, randCalls, initialized, genArgs,
                   baseCounts, densityLog>>

\* SolarSystemManager::update(deltaTime): every stage is given
\* scaledDeltaTime = deltaTime * timeScale_
Update(r, deltaTime) ==
    /\ ~aborted
    /\ steps < MaxSteps
    /\ IF ~initialized[r] THEN UNCHANGED vars
       ELSE Updated(r, deltaTime,
                    SystemUpdate(sun[r][1], planets[r], asteroidBelts[r],
                                 planetaryRings[r], deltaTime * timeScale[r]))

\* The state a render pass leaves
Rendered(r, cameraPos, ps) ==
    /\ planets' = [planets EXCEPT ![r] = ps]
    /\ steps' = steps + 1
    /\ Record(r, "render", cameraPos, Generations(ps) - Generations(planets[r]))
    /\ UNCHANGED <<untouched, assertions, aborted, randCalls, initialized, sun,
                   asteroidBelts, planetaryRings, genArgs, baseCounts,
                   densityLog, updateLog>>

\* SolarSystemManager::render with shaders and a camera at cameraPos: the
\* planet pass may rebuild meshes, the other passes only draw
Render(r, cameraPos) ==
    /\ ~aborted
    /\ steps < MaxSteps
    /\ IF ~initialized[r] THEN UNCHANGED vars
       ELSE Rendered(r, cameraPos,
                     PlanetManagerRender(planets[r], cameraPos, maxRenderDistance[r]))

\* SolarSystemManager::setAsteroidDensity(density)
SetAsteroidDensity(r, density) ==
    /\ ~aborted
    /\ steps < MaxSteps
    /\ asteroidBelts' = [asteroidBelts EXCEPT ![r] =
            [i \in 1..Len(@) |-> BeltSetDensity(@[i], density)]]
    /\ densityLog' = [densityLog EXCEPT ![r].belts = Append(@, density)]
    /\ steps' = steps + 1
    /\ Record(r, "setAsteroidDensity", <<density>>, 0)
    /\ UNCHANGED <<untouched, assertions, aborted, randCalls, initialized, sun, planets,
                   planetaryRings, genArgs, baseCounts, updateLog>>

\* SolarSystemManager::setRingDensity(density)
SetRingDensity(r, density) ==
    /\ ~aborted
    /\ steps < MaxSteps
    /\ planetaryRings' = [planetaryRings EXCEPT ![r] =
            [i \in 1..Len(@) |-> RingSetDensity(@[i], density)]]
    /\ densityLog' = [densityLog EXCEPT ![r].rings = Append(@, density)]
    /\ steps' = steps + 1
    /\ Record(r, "setRingDensity", <<density>>, 0)
    /\ UNCHANGED <<untouched, assertions, aborted, randCalls, initialized, sun, planets,
                   asteroidBelts, genArgs, baseCounts, updateLog>>

\* PlanetManager::generateSolarSystem(systemSeed, planetCount) entered on a
\* PlanetManager with a noise generator: clear() and the loop variables
BeginPlacement(systemSeed, planetCount) ==
    /\ placement.pc = "idle"
    /\ placement' = [IdlePlacement EXCEPT
                        !.pc = IF planetCount > 0 THEN "loop" ELSE "done",
                        !.seed = systemSeed, !.n = planetCount]
    /\ UNCHANGED <<system, steps, members, settings, input, camera, maxRenderDistance, body>>

\* The call after the do-while loop of index pl.i has ended: addPlanet and
\* planetPositions when the position is valid, the next index either way
PlacementNext(pl, cand, validPosition, attempts) ==
    [pl EXCEPT
        !.i = pl.i + 1, !.attempts = 0, !.k = pl.k + 3,
        !.tried = Append(pl.tried, attempts),
        !.placed =
            IF validPosition
            THEN Append(pl.placed,
                        [position |-> cand.position,
                         radius |-> GeneratePlanetProperties(
                                        pl.seed + pl.i * 1000,
                                        Length(cand.position)).radius])
            ELSE pl.placed,
        !.added = IF validPosition THEN Append(pl.added, pl.seed + pl.i * 1000)
                                   ELSE pl.added,
        !.pc = IF pl.i + 1 >= pl.n THEN "done" ELSE "loop"]

\* The call after one pass of the do-while body
PlacementAfter(pl, cand, validPosition, attempts) ==
    IF LoopContinues(validPosition, attempts)
    THEN [pl EXCEPT !.attempts = attempts, !.k = pl.k + 3]
    ELSE PlacementNext(pl, cand, validPosition, attempts)

\* One pass of the do-while body of generateSolarSystem with candidate cand
PlacementPass(pl, cand) ==
    PlacementAfter(pl, cand,
                   ~Collides(cand.position,
                             GeneratePlanetProperties(
                                 pl.seed + pl.i * 1000 + pl.attempts,
                                 cand.distance).radius,
                             pl.placed),
                   pl.attempts + 1)

\* One pass of the do-while loop, with what follows the loop when it ends
AttemptPlacement ==
    /\ placement.pc = "loop"
    /\ placement' = PlacementPass(placement, Candidate(placement.seed, placement.k))
    /\ UNCHANGED <<system, steps, members, settings, input, camera, maxRenderDistance, body>>

\* Planet::Planet(radius, resolution, noise): a planet with an empty geometry
NewBody(radius, resolution) ==
    /\ body = <<>>
    /\ body' = <<[planet |-> NewPlanet(radius, resolution), noise |-> 1,
                  vertices |-> <<>>, indices |-> <<>>, built |-> <<>>,
                  last |-> "Planet"]>>
    /\ UNCHANGED <<system, steps, members, settings, input, camera, maxRenderDistance, placement>>

\* Planet::setResolution(resolution) on the planet
BodySetResolution(resolution) ==
    /\ body # <<>>
    /\ steps < MaxSteps
    /\ body' = <<[body[1] EXCEPT !.planet = SetResolution(@, resolution),
                                 !.last = "setResolution"]>>
    /\ steps' = steps + 1
    /\ UNCHANGED <<system, members, settings, input, camera, maxRenderDistance, placement>>

\* Planet::setRadius(radius) on the planet
BodySetRadius(radius) ==
    /\ body # <<>>
    /\ steps < MaxSteps
    /\ body' = <<[body[1] EXCEPT !.planet = SetRadius(@, radius),
                                 !.last = "setRadius"]>>
    /\ steps' = steps + 1
    /\ UNCHANGED <<system, members, settings, input, camera, maxRenderDistance, placement>>

\* The planet and its geometry after Planet::generate(): built holds the
\* parameter values generateFace and generateHeight read while the mesh was
\* made
Regenerated(b, mesh) ==
    IF ~b.planet.needsRegeneration THEN [b EXCEPT !.last = "generate"]
    ELSE [planet |-> PlanetGenerate(b.planet), noise |-> b.noise,
          vertices |-> mesh.vertices, indices |-> mesh.indices,
          built |-> <<[radius |-> b.planet.radius,
                       resolution |-> b.planet.resolution,
                       heightScale |-> b.planet.heightScale,
                       noiseFrequency |-> b.planet.noiseFrequency,
                       noiseOctaves |-> b.planet.noiseOctaves,
                       noise |-> b.noise]>>,
          last |-> "generate"]

\* Planet::generate() on the planet
BodyGenerate ==
    /\ body # <<>>
    /\ steps < MaxSteps
    /\ body' = <<Regenerated(body[1], GenerateMesh(body[1].planet.resolution))>>
    /\ steps' = steps + 1
    /\ UNCHANGED <<system, members, settings, input, camera, maxRenderDistance, placement>>

\* Planet::setNoise(noise) on the planet; noise 0 is the null pointer
BodySetNoise(noise) ==
    /\ body # <<>>
    /\ steps < MaxSteps
    /\ body' = <<[body[1] EXCEPT !.noise = noise,
                                 !.planet.needsRegeneration = TRUE,
                                 !.last = "setNoise"]>>
    /\ steps' = steps + 1
    /\ UNCHANGED <<system, members, settings, input, camera, maxRenderDistance, placement>>

\* Planet::setHeightScale, setNoiseFrequency and setNoiseOctaves on the
\* planet: each stores its argument in the member named by field
BodySetTerrain(field, value) ==
    /\ body # <<>>
    /\ steps < MaxSteps
    /\ body' = <<[body[1] EXCEPT !.planet[field] = value, !.last = field]>>
    /\ steps' = steps + 1
    /\ UNCHANGED <<system, members, settings, input, camera, maxRenderDistance, placement>>

\* PlanetManager::setMaxRenderDistance(distance) through getPlanetManager(),
\* which is null until the manager is initialised
SetMaxRenderDistance(r, distance) ==
    /\ ~aborted
    /\ steps < MaxSteps
    /\ initialized[r]
    /\ maxRenderDistance' = [maxRenderDistance EXCEPT ![r] = distance]
    /\ steps' = steps + 1
    /\ Record(r, "setMaxRenderDistance", <<distance>>, 0)
    /\ UNCHANGED <<members, settings, input, camera, placement, body, assertions, aborted, randCalls,
                   initialized, sun, planets, asteroidBelts, planetaryRings,
                   genArgs, baseCounts, densityLog, updateLog>>

\* The values a read of member can give: a member no code has written holds
\* whatever its storage held, here any of the sample values
Read(member, samples) == IF member = Indeterminate THEN samples ELSE {member}

\* The state a getter leaves, having returned result
Returned(r, op, result) ==
    /\ steps' = steps + 1
    /\ Record(r, op, <<result>>, 0)
    /\ UNCHANGED <<untouched, assertions, aborted, randCalls, initialized, sun,
                   planets, asteroidBelts, planetaryRings, genArgs, baseCounts,
                   densityLog, updateLog>>

\* SolarSystemManager::getSeed()
GetSeed(r) ==
    /\ ~aborted
    /\ steps < MaxSteps
    /\ \E result \in Read(currentSeed[r], Seeds \cup {0}) :
            Returned(r, "getSeed", result)

\* SolarSystemManager::getAsteroidDensity()
GetAsteroidDensity(r) ==
    /\ ~aborted
    /\ steps < MaxSteps
    /\ \E result \in Read(asteroidDensity[r], Densities) :
            Returned(r, "getAsteroidDensity", result)

\* SolarSystemManager::getRingDensity()
GetRingDensity(r) ==
    /\ ~aborted
    /\ steps < MaxSteps
    /\ \E result \in Read(ringDensity[r], Densities) :
            Returned(r, "getRingDensity", result)

\* SolarSystemManager::setTimeScale(timeScale)
SetTimeScale(r, scale) ==
    /\ ~aborted
    /\ steps < MaxSteps
    /\ timeScale' = [timeScale EXCEPT ![r] = scale]
    /\ steps' = steps + 1
    /\ Record(r, "setTimeScale", <<scale>>, 0)
    /\ UNCHANGED <<members, asteroidsVisible, ringsVisible, input, camera,
                   maxRenderDistance, placement, body, assertions, aborted,
                   randCalls, initialized, sun, planets, asteroidBelts,
                   planetaryRings, genArgs, baseCounts, densityLog, updateLog>>

\* SolarSystemManager::setAsteroidBeltsVisible(visible)
SetAsteroidBeltsVisible(r, visible) ==
    /\ ~aborted
    /\ steps < MaxSteps
    /\ asteroidsVisible' = [asteroidsVisible EXCEPT ![r] = visible]
    /\ asteroidBelts' = [asteroidBelts EXCEPT ![r] =
            [i \in 1..Len(@) |-> [@[i] EXCEPT !.visible = visible]]]
    /\ steps' = steps + 1
    /\ Record(r, "setAsteroidBeltsVisible", <<visible>>, 0)
    /\ UNCHANGED <<members, timeScale, ringsVisible, input, camera,
                   maxRenderDistance, placement, body, assertions, aborted,
                   randCalls, initialized, sun, planets, planetaryRings,
                   genArgs, baseCounts, densityLog, updateLog>>

\* SolarSystemManager::setPlanetaryRingsVisible(visible)
SetPlanetaryRingsVisible(r, visible) ==
    /\ ~aborted
    /\ steps < MaxSteps
    /\ ringsVisible' = [ringsVisible EXCEPT ![r] = visible]
    /\ planetaryRings' = [planetaryRings EXCEPT ![r] =
            [i \in 1..Len(@) |-> [@[i] EXCEPT !.visible = visible]]]
    /\ steps' = steps + 1
    /\ Record(r, "setPlanetaryRingsVisible", <<visible>>, 0)
    /\ UNCHANGED <<members, timeScale, asteroidsVisible, input, camera,
                   maxRenderDistance, placement, body, assertions, aborted,
                   randCalls, initialized, sun, planets, asteroidBelts,
                   genArgs, baseCounts, densityLog, updateLog>>

\* Generation by either manager
GenStep(r) ==
    \/ \E hasNoise \in BOOLEAN : Initialize(r, hasNoise)
    \/ \E systemSeed \in Seeds, planetCount \in PlanetCounts :
            Generate(r, systemSeed, planetCount)

\* Frames of the main loop
FrameStep(r) ==
    \/ \E deltaTime \in DeltaTimes : Update(r, deltaTime)
    \/ \E cameraPos \in Cameras : Render(r, cameraPos)

\* The density controls
DensityStep(r) ==
    \/ \E density \in Densities : SetAsteroidDensity(r, density)
    \/ \E density \in Densities : SetRingDensity(r, density)

Next ==
    \E r \in Runs :
        \/ GenStep(r) \/ FrameStep(r) \/ DensityStep(r)
        \/ \E distance \in RenderDistances : SetMaxRenderDistance(r, distance)
        \/ GetSeed(r) \/ GetAsteroidDensity(r) \/ GetRingDensity(r)
        \/ \E scale \in TimeScales : SetTimeScale(r, scale)
        \/ \E visible \in BOOLEAN : SetAsteroidBeltsVisible(r, visible)
        \/ \E visible \in BOOLEAN : SetPlanetaryRingsVisible(r, visible)

Spec == Init /\ [][Next]_vars

\* Two managers that only generate
NextGen == \E r \in Runs : GenStep(r)

SpecGen == Init /\ [][NextGen]_vars

\* One manager that generates, updates and renders
NextOrbit == GenStep(1) \/ FrameStep(1)

SpecOrbit == Init /\ [][NextOrbit]_vars

\* One manager that generates and renders under a changing render distance
NextRender ==
    \/ GenStep(1) \/ FrameStep(1)
    \/ \E distance \in RenderDistances : SetMaxRenderDistance(1, distance)

SpecRender == Init /\ [][NextRender]_vars

\* One manager that generates, has its densities changed and is read back
NextAccess ==
    \/ GenStep(1) \/ DensityStep(1)
    \/ GetSeed(1) \/ GetAsteroidDensity(1) \/ GetRingDensity(1)

\* One manager that generates and ticks while its time scale and the
\* visibility of its belts and rings are changed
NextControls ==
    \/ GenStep(1)
    \/ \E deltaTime \in DeltaTimes : Update(1, deltaTime)
    \/ \E scale \in TimeScales : SetTimeScale(1, scale)
    \/ \E visible \in BOOLEAN : SetAsteroidBeltsVisible(1, visible)
    \/ \E visible \in BOOLEAN : SetPlanetaryRingsVisible(1, visible)

SpecControls == Init /\ [][NextControls]_vars

SpecAccess == Init /\ [][NextAccess]_vars

\* One manager that generates and has its densities changed
NextDensity == GenStep(1) \/ DensityStep(1)

SpecDensity == Init /\ [][NextDensity]_vars

\* Planet count of a crowded system
DenseCount == 240

\* Largest mesh resolution given to a planet used on its own
MaxResolution == 4

\* Resolutions given to the Planet constructor and to setResolution
Resolutions == -1..MaxResolution

\* Radii given to the Planet constructor and to setRadius
Radii == {100, 250}

\* A planet used on its own
NextBody ==
    \/ \E radius \in Radii, resolution \in Resolutions : NewBody(radius, resolution)
    \/ \E resolution \in Resolutions : BodySetResolution(resolution)
    \/ \E radius \in Radii : BodySetRadius(radius)
    \/ BodyGenerate

SpecBody == Init /\ [][NextBody]_vars

\* A planet on its own whose noise and terrain parameters are changed as well
NextTerrain ==
    \/ NextBody
    \/ \E noise \in 0..2 : BodySetNoise(noise)
    \/ \E value \in {1000, 2000} : BodySetTerrain("heightScale", value)
    \/ \E value \in {10, 20} : BodySetTerrain("noiseFrequency", value)
    \/ \E value \in {4, 6} : BodySetTerrain("noiseOctaves", value)

SpecTerrain == Init /\ [][NextTerrain]_vars

\* One PlanetManager::generateSolarSystem call for a crowded system, one pass
\* of the do-while loop at a time
NextPlacement ==
    \/ \E systemSeed \in Seeds : BeginPlacement(systemSeed, DenseCount)
    \/ AttemptPlacement

SpecPlacement == Init /\ [][NextPlacement]_vars

-----------------------------------------------------------------------------
(* InputManager and the frame loop *)

\* Key events that one pollEvents call delivers at most
MaxEvents == 2

\* The GLFW key callback for one key: InputManager::updateKeyState(key,
\* action) while pollEvents runs.  GLFW reports a press of a key that is up and
\* a release or a repeat of a key that is down.
KeyEvent(action) ==
    /\ input.pc = "pollEvents"
    /\ Len(input.events) < MaxEvents
    /\ (action = "GLFW_PRESS") = ~input.down
    /\ input' = [input EXCEPT
            !.keyState = CASE action = "GLFW_PRESS" -> "Pressed"
                           [] action = "GLFW_RELEASE" -> "Released"
                           [] action = "GLFW_REPEAT" -> "Held",
            !.down = (action # "GLFW_RELEASE"),
            !.events = Append(@, action)]
    /\ UNCHANGED <<system, steps, members, settings, camera, maxRenderDistance,
                   placement, body>>

\* InputManager::update(), called when pollEvents has returned
InputUpdate ==
    /\ input.pc = "pollEvents"
    /\ input' = [input EXCEPT
            !.previousKeyState = input.keyState,
            !.keyState = IF input.keyState = "Pressed" THEN "Held" ELSE @,
            !.pc = "update"]
    /\ UNCHANGED <<system, steps, members, settings, camera, maxRenderDistance,
                   placement, body>>

\* isKeyPressed(key), isKeyHeld(key) and isKeyReleased(key)
KeyQueries(i) ==
    [pressed |-> i.keyState = "Pressed",
     held |-> i.keyState \in {"Pressed", "Held"},
     released |-> /\ i.keyState = "Released"
                  /\ i.previousKeyState \in {"Pressed", "Held"}]

-----------------------------------------------------------------------------
(* Camera: cinematic sequences *)

\* Keyframes a cinematic sequence is given at most
MaxKeyframes == 2

\* Camera::setMode(mode)
SetMode(c, mode) ==
    [c EXCEPT !.currentMode = mode, !.cinematicPlaying = FALSE]

\* Camera::updateCinematic(deltaTime)
UpdateCinematic(c, deltaTime) ==
    IF ~c.cinematicPlaying \/ c.cinematicKeyframes = <<>> THEN c
    ELSE IF c.cinematicTime + deltaTime >= c.cinematicDuration
         THEN [c EXCEPT !.cinematicTime = @ + deltaTime, !.cinematicPlaying = FALSE]
         ELSE [c EXCEPT !.cinematicTime = @ + deltaTime]

\* Camera::update(deltaTime): updateMode, which in cinematic mode calls
\* updateCinematic, and then updateCinematic
CameraUpdate(c, deltaTime) ==
    LET moded == IF c.currentMode = "CINEMATIC"
                 THEN UpdateCinematic(c, deltaTime) ELSE c
    IN  [UpdateCinematic(moded, deltaTime) EXCEPT !.last = "update"]

\* Camera::addCinematicKeyframe(position, lookAt, time); a keyframe is
\* represented by its time
AddCinematicKeyframe(time) ==
    /\ Len(camera.cinematicKeyframes) < MaxKeyframes
    /\ LET sorted == SortSeq(Append(camera.cinematicKeyframes, time),
                             LAMBDA a, b : a < b)
       IN  camera' = [camera EXCEPT
                !.cinematicKeyframes = sorted,
                !.cinematicDuration = sorted[Len(sorted)],
                !.last = "addCinematicKeyframe"]
    /\ UNCHANGED <<system, steps, members, settings, input, maxRenderDistance,
                   placement, body>>

\* Camera::playCinematicSequence()
PlayCinematicSequence ==
    /\ camera' = [(IF camera.cinematicKeyframes # <<>>
                   THEN SetMode([camera EXCEPT !.cinematicPlaying = TRUE,
                                               !.cinematicTime = 0],
                                "CINEMATIC")
                   ELSE camera)
                  EXCEPT !.last = "playCinematicSequence"]
    /\ UNCHANGED <<system, steps, members, settings, input, maxRenderDistance,
                   placement, body>>

\* Camera::stopCinematicSequence()
StopCinematicSequence ==
    /\ camera' = [SetMode([camera EXCEPT !.cinematicPlaying = FALSE], "FREE_FLY")
                  EXCEPT !.last = "stopCinematicSequence"]
    /\ UNCHANGED <<system, steps, members, settings, input, maxRenderDistance,
                   placement, body>>

\* App::update(deltaTime) in the frame loop: the camera is updated, and what
\* the key queries return during the call is recorded with the key events of
\* the frame and whether the key is down
AppUpdate(deltaTime) ==
    /\ input.pc = "update"
    /\ camera' = CameraUpdate(camera, deltaTime)
    /\ input' = [input EXCEPT
            !.seen = <<[events |-> input.events, down |-> input.down,
                         queries |-> KeyQueries(input)]>>,
            !.events = <<>>,
            !.pc = "pollEvents"]
    /\ UNCHANGED <<system, steps, members, settings, maxRenderDistance,
                   placement, body>>

\* App::loop(): pollEvents, InputManager::update, App::update, while the
\* interface starts and stops cinematic sequences
NextApp ==
    \/ \E action \in {"GLFW_PRESS", "GLFW_RELEASE", "GLFW_REPEAT"} : KeyEvent(action)
    \/ InputUpdate
    \/ \E deltaTime \in DeltaTimes : AppUpdate(deltaTime)
    \/ \E time \in {0, 5, 20} : AddCinematicKeyframe(time)
    \/ PlayCinematicSequence
    \/ StopCinematicSequence

SpecApp == Init /\ [][NextApp]_vars

-----------------------------------------------------------------------------
(* Claims about generation *)

\* Managers on which generateSolarSystem has completed
GeneratedRuns == {r \in Runs : genArgs[r] # NoArgs}

\* The attributes of planet i of manager r that C1 names
PlanetAttributes(r, i) ==
    [position |-> planets[r][i].position,
     radius |-> planets[r][i].planet.radius,
     color |-> planets[r][i].color,
     rotationSpeed |-> planets[r][i].rotationSpeed,
     type |-> planets[r][i].type]

\* C1: two managers that generated with the same seed and planet count hold
\* the same number of planets and, index by index, the same position, radius,
\* colour, rotation speed and type.
C1_SameSeedSamePlanets ==
    \A r1, r2 \in GeneratedRuns :
        genArgs[r1] = genArgs[r2] =>
            /\ Len(planets[r1]) = Len(planets[r2])
            /\ \A i \in 1..Len(planets[r1]) :
                    PlanetAttributes(r1, i) = PlanetAttributes(r2, i)

\* Both managers generated MaxPlanets planets from one seed, the second after
\* the first had consumed rand() values
C1_Witness ==
    /\ genArgs[1] # NoArgs
    /\ genArgs[1] = genArgs[2]
    /\ Len(planets[1]) = MaxPlanets
    /\ planets[1] # planets[2]

\* Distance between planets i and j of manager r
PlanetDistance(r, i, j) == Length(VecSub(planets[r][i].position, planets[r][j].position))

\* C2: after a generation any two distinct planets are at least the sum of
\* their stored radii plus the 5 unit buffer apart.
C2_NoOverlap ==
    \A r \in GeneratedRuns :
        \A i, j \in 1..Len(planets[r]) :
            i < j => PlanetDistance(r, i, j)
                        >= planets[r][i].planet.radius + planets[r][j].planet.radius
                            + CollisionBuffer

\* The moon attributes that C6 names, for all moons of manager r
MoonAttributes(r) ==
    [i \in 1..Len(planets[r]) |->
        [j \in 1..Len(planets[r][i].moons) |->
            [orbitInclination |-> planets[r][i].moons[j].orbitInclination,
             radius |-> planets[r][i].moons[j].radius,
             orbitRadius |-> planets[r][i].moons[j].orbitRadius,
             orbitSpeed |-> planets[r][i].moons[j].orbitSpeed,
             color |-> planets[r][i].moons[j].color]]]

\* C6: two generations with the same seed and planet count give every moon
\* the same inclination, radius, orbit radius, orbit speed and colour,
\* whatever the process-wide random state was.
C6_MoonsFromSeedAlone ==
    \A r1, r2 \in GeneratedRuns :
        genArgs[r1] = genArgs[r2] => MoonAttributes(r1) = MoonAttributes(r2)

\* C7 as stated: a generation with planet count n leaves at most n planets
\* and every stored orbit radius lies in [25, 120].
C7_OrbitRadiusInDrawnRange ==
    \A r \in GeneratedRuns :
        /\ Len(planets[r]) <= genArgs[r].n
        /\ \A i \in 1..Len(planets[r]) :
                /\ planets[r][i].orbitRadius >= 2500
                /\ planets[r][i].orbitRadius <= 12000

\* C7 amended: a generation with planet count n leaves at most n planets and
\* every stored orbit radius is the length of the generated position: at least
\* 25 and at most sqrt(120^2 + 10^2) < 120.42, up to the rounding of the
\* arithmetic.
C7_OrbitRadiusIsPositionLength ==
    \A r \in GeneratedRuns :
        /\ Len(planets[r]) <= genArgs[r].n
        /\ \A i \in 1..Len(planets[r]) :
                /\ planets[r][i].orbitRadius >= 2500 - 2
                /\ planets[r][i].orbitRadius <= 12042 + 2

\* A planet whose stored orbit radius exceeds the largest drawn distance
C7_Witness ==
    \E r \in GeneratedRuns : \E i \in 1..Len(planets[r]) :
        planets[r][i].orbitRadius > 12000

\* All planets of all managers, as (manager, index) pairs
AllPlanets == {<<r, i>> \in Runs \X (1..MaxPlanets + 1) : i <= Len(planets[r])}

\* C10: every planet has between 0 and maxMoons moons (4 for gas giants, else
\* 3, 2 or 1 by scale), and the count is the same for any two planets with the
\* same seed, type and scale.
C10_MoonCount ==
    /\ \A x \in AllPlanets :
            LET p == planets[x[1]][x[2]]
            IN  /\ Len(p.moons) >= 0
                /\ Len(p.moons) <= MaxMoons(p.type, p.scale)
                /\ MaxMoons(p.type, p.scale) \in {1, 2, 3, 4}
    /\ \A x, y \in AllPlanets :
            LET p == planets[x[1]][x[2]]
                q == planets[y[1]][y[2]]
            IN  (p.seed = q.seed /\ p.type = q.type /\ p.scale = q.scale)
                    => Len(p.moons) = Len(q.moons)

\* A gas giant with several moons, and the same planet generated a second
\* time by the other manager
C10_Witness ==
    /\ genArgs[1] # NoArgs
    /\ genArgs[1] = genArgs[2]
    /\ \E i \in 1..Len(planets[1]) :
            planets[1][i].type = 1 /\ Len(planets[1][i].moons) >= 2

-----------------------------------------------------------------------------
(* Claims about ticks and render passes *)

\* An angle in [0, 2 pi)
InTurn(angle) == 0 <= angle /\ angle < TwoPi

\* C3: after a generation and after any sequence of update calls, every
\* planet's and every moon's orbit angle and self-rotation lie in [0, 2 pi).
C3_AnglesInTurn ==
    \A r \in GeneratedRuns : \A i \in 1..Len(planets[r]) :
        /\ InTurn(planets[r][i].currentOrbitAngle)
        /\ InTurn(planets[r][i].currentRotation)
        /\ \A j \in 1..Len(planets[r][i].moons) :
                /\ InTurn(planets[r][i].moons[j].currentOrbitAngle)
                /\ InTurn(planets[r][i].moons[j].currentRotation)

\* C8: of two consecutive render passes with the same camera, with no update
\* between them, the second regenerates no mesh.
C8_SecondPassRegeneratesNothing ==
    \A r \in Runs :
        (/\ lastOp[r].op = "render"
         /\ prevOp[r].op = "render"
         /\ lastOp[r].arg = prevOp[r].arg) => lastOp[r].regens = 0

\* Two passes with one camera over a generated system, the first of which
\* rebuilt meshes
C8_Witness ==
    /\ lastOp[1].op = "render"
    /\ prevOp[1].op = "render"
    /\ lastOp[1].arg = prevOp[1].arg
    /\ prevOp[1].regens > 0
    /\ Len(planets[1]) = MaxPlanets

\* The position Moon::update gives a moon of a planet at planetPosition
MoonPositionAt(m, planetPosition) ==
    VecAdd(planetPosition,
           <<MulCos(m.orbitRadius, m.currentOrbitAngle),
             MulSin(MulSin(m.orbitRadius, m.orbitInclination), m.currentOrbitAngle),
             MulSin(m.orbitRadius, m.currentOrbitAngle)>>)

\* Number of objects a tick updates on manager r
ObjectCount(r) ==
    1 + Len(planets[r])
      + SumTo([i \in 1..Len(planets[r]) |-> Len(planets[r][i].moons)], Len(planets[r]))
      + Len(asteroidBelts[r]) + Len(planetaryRings[r])

\* C9: within one tick the sun is updated first, each planet before its own
\* moons, all planets and moons before any belt or ring, and each moon's
\* position is computed from its planet's position of the same tick.
C9_TickOrder ==
    \A r \in Runs :
        lastOp[r].op = "update" =>
            LET log == updateLog[r]
            IN  /\ Len(log) = ObjectCount(r)
                /\ log[1].kind = "sun"
                /\ \A a \in 2..Len(log) : log[a].kind # "sun"
                /\ \A a \in 1..Len(log) :
                        log[a].kind = "moon" =>
                            \E b \in 1..(a - 1) :
                                log[b].kind = "planet" /\ log[b].index = log[a].index
                /\ \A a, b \in 1..Len(log) :
                        (/\ log[a].kind \in {"planet", "moon"}
                         /\ log[b].kind \in {"belt", "rings"}) => a < b
                /\ \A i \in 1..Len(planets[r]) :
                        \A j \in 1..Len(planets[r][i].moons) :
                            planets[r][i].moons[j].position
                                = MoonPositionAt(planets[r][i].moons[j],
                                                 planets[r][i].position)

\* A tick over a system with a moon, a belt and a ring system
C9_Witness ==
    /\ lastOp[1].op = "update"
    /\ HasMoon(planets[1])
    /\ Len(asteroidBelts[1]) > 0
    /\ Len(planetaryRings[1]) > 0
    /\ Len(planets[1]) = MaxPlanets

-----------------------------------------------------------------------------
(* Claims about the density controls *)

\* C * d for a density d in tenths: truncated, and rounded to nearest
Truncated(count, density) == (count * density) \div 10

Rounded(count, density) == (count * density + 5) \div 10

\* C4: after any sequence of setDensity calls each belt and each ring system
\* holds its generated count times the last clamped factor.
C4_CountFollowsLastFactor ==
    \A r \in GeneratedRuns :
        /\ densityLog[r].belts # <<>> =>
                \A i \in 1..Len(asteroidBelts[r]) :
                    LET d == Clamp(densityLog[r].belts[Len(densityLog[r].belts)], 1, 20)
                    IN  Len(asteroidBelts[r][i].asteroids)
                            \in {Truncated(baseCounts[r].belts[i], d),
                                 Rounded(baseCounts[r].belts[i], d)}
        /\ densityLog[r].rings # <<>> =>
                \A i \in 1..Len(planetaryRings[r]) :
                    LET d == Clamp(densityLog[r].rings[Len(densityLog[r].rings)], 1, 30)
                    IN  Len(planetaryRings[r][i].particles)
                            \in {Truncated(baseCounts[r].rings[i], d),
                                 Rounded(baseCounts[r].rings[i], d)}

\* C5 as stated: one setDensity(d) call on a structure generated with count C
\* leaves round(C * d') items, d' being d clamped to [0.1, 2.0] for belts and
\* to [0.1, 3.0] for rings.
C5_SingleCallRounds ==
    \A r \in GeneratedRuns :
        /\ Len(densityLog[r].belts) = 1 =>
                \A i \in 1..Len(asteroidBelts[r]) :
                    Len(asteroidBelts[r][i].asteroids)
                        = Rounded(baseCounts[r].belts[i],
                                  Clamp(densityLog[r].belts[1], 1, 20))
        /\ Len(densityLog[r].rings) = 1 =>
                \A i \in 1..Len(planetaryRings[r]) :
                    Len(planetaryRings[r][i].particles)
                        = Rounded(baseCounts[r].rings[i],
                                  Clamp(densityLog[r].rings[1], 1, 30))

\* C5 amended: one setDensity(d) call on a structure generated with count C
\* leaves the integer part of C * d' items (truncation, not rounding), d'
\* being d clamped to [0.1, 2.0] for belts and to [0.1, 3.0] for rings.
C5_SingleCallTruncates ==
    \A r \in GeneratedRuns :
        /\ Len(densityLog[r].belts) = 1 =>
                \A i \in 1..Len(asteroidBelts[r]) :
                    Len(asteroidBelts[r][i].asteroids)
                        = Truncated(baseCounts[r].belts[i],
                                    Clamp(densityLog[r].belts[1], 1, 20))
        /\ Len(densityLog[r].rings) = 1 =>
                \A i \in 1..Len(planetaryRings[r]) :
                    Len(planetaryRings[r][i].particles)
                        = Truncated(baseCounts[r].rings[i],
                                    Clamp(densityLog[r].rings[1], 1, 30))

\* One call with factor 0.5 on a belt generated with an odd count
C5_Witness ==
    /\ densityLog[1].belts = <<5>>
    /\ \E i \in 1..Len(asteroidBelts[1]) :
            /\ baseCounts[1].belts[i] % 2 = 1
            /\ 2 * Len(asteroidBelts[1][i].asteroids) = baseCounts[1].belts[i] - 1

-----------------------------------------------------------------------------
(* Claims about regeneration *)

\* The planet seeds generateSolarSystem(seed, n) can give: seed + i * 1000
PlanetSeeds(seed, n) == {seed + i * 1000 : i \in 0..(n - 1)}

\* The elements of a sequence carry pairwise different seeds
DistinctSeeds(objs) ==
    \A i, j \in 1..Len(objs) : i # j => objs[i].seed # objs[j].seed

\* C11: after a generation the planet, belt and ring collections hold only
\* objects built by that call: at most n planets, each with a seed of this
\* call and no seed twice, exactly the belts this seed gives, and at most one
\* ring per ring site, each with a seed of this call.
C11_GenerationReplaces ==
    \A r \in GeneratedRuns :
        lastOp[r].op = "generate" =>
            /\ Len(planets[r]) <= genArgs[r].n
            /\ \A i \in 1..Len(planets[r]) :
                    planets[r][i].seed \in PlanetSeeds(genArgs[r].seed, genArgs[r].n)
            /\ DistinctSeeds(planets[r])
            /\ Len(asteroidBelts[r]) = UInt(1, 3, Mt(genArgs[r].seed + 1000, 0))
            /\ \A i \in 1..Len(asteroidBelts[r]) :
                    asteroidBelts[r][i].seed = genArgs[r].seed + i - 1
            /\ Len(planetaryRings[r]) <= Len(GasGiantDistances)
            /\ \A i \in 1..Len(planetaryRings[r]) :
                    planetaryRings[r][i].seed - genArgs[r].seed
                        \in 0..(Len(GasGiantDistances) - 1)
            /\ DistinctSeeds(planetaryRings[r])

\* A manager that generated twice, with different arguments, and holds planets
C11_Witness ==
    \E r \in GeneratedRuns :
        /\ lastOp[r].op = "generate"
        /\ prevOp[r].op = "generate"
        /\ prevOp[r].arg # lastOp[r].arg
        /\ Len(planets[r]) > 0
        /\ Len(planetaryRings[r]) > 0

\* C12: the state right after generateSolarSystem(s, n) is the state a first
\* generation on a freshly initialized manager gives: the same star (radius,
\* colour, temperature, light intensity, rotation and pulse phase), planets,
\* belts and rings.
C12_RegenerationReproduces ==
    \A r \in GeneratedRuns :
        lastOp[r].op = "generate" =>
            /\ sun[r] = <<SetupSun(NewSun, genArgs[r].seed)>>
            /\ planets[r] = GenerateSolarSystem(genArgs[r].seed, genArgs[r].n,
                                                TRUE, <<>>, 0).planets
            /\ asteroidBelts[r] = GenerateAsteroidBelts(genArgs[r].seed, <<>>)
            /\ planetaryRings[r] = GeneratePlanetaryRings(genArgs[r].seed, <<>>)

-----------------------------------------------------------------------------
(* Claims about rejection sampling *)

\* Index j (1, 2, ...) of the placement was given up
Skipped(j) == placement.seed + (j - 1) * 1000 \notin
                    {placement.added[a] : a \in 1..Len(placement.added)}

\* Sum of f[lo..hi], by halving
RECURSIVE SumOver(_, _, _)
SumOver(f, lo, hi) ==
    IF lo > hi THEN 0
    ELSE IF lo = hi THEN f[lo]
    ELSE SumOver(f, lo, (lo + hi) \div 2) + SumOver(f, (lo + hi) \div 2 + 1, hi)

\* C13: for every planet index at most 50 candidates are tried; an index is
\* given up only after 50 rejections, adds no planet, and the loop goes on to
\* the next index; the call ends: every pass of the loop takes three draws,
\* the number of draws is bounded by 3 * 50 * n, and a call that has ended
\* has dealt with all n indices.
C13_RejectionSamplingEnds ==
    /\ placement.attempts < MaxAttempts
    /\ placement.i = Len(placement.tried)
    /\ Len(placement.tried) <= placement.n
    /\ Len(placement.added) = Len(placement.placed)
    /\ \A j \in 1..Len(placement.tried) :
            /\ placement.tried[j] \in 1..MaxAttempts
            /\ Skipped(j) => placement.tried[j] = MaxAttempts
    /\ placement.pc = "done" => Len(placement.tried) = placement.n
    /\ placement.pc = "loop" => placement.i < placement.n
    /\ placement.k = 3 * (SumOver(placement.tried, 1, Len(placement.tried))
                            + placement.attempts)
    /\ placement.k <= 3 * MaxAttempts * placement.n

\* An index was given up after 50 rejections and a later index was placed
C13_Witness ==
    \E j \in 1..Len(placement.tried) :
        /\ Skipped(j)
        /\ placement.tried[j] = MaxAttempts
        /\ \E a \in 1..Len(placement.added) :
                placement.added[a] > placement.seed + (j - 1) * 1000

-----------------------------------------------------------------------------
(* Claims about a missing noise generator *)

\* C14: when generation is requested on a manager that was given no noise
\* generator, the system is generated all the same: the star is set up, the
\* requested bodies exist, and belts exist.
C14_GeneratesWithoutNoise ==
    \A r \in Runs :
        (~initialized[r] /\ lastOp[r].op = "generate") =>
            /\ sun[r] # <<>>
            /\ Len(planets[r]) > 0
            /\ Len(asteroidBelts[r]) > 0

-----------------------------------------------------------------------------
(* Claims about the planet mesh *)

\* C15: every mesh generation runs with a resolution of at least 2 and builds
\* a mesh with triangles.
C15_GeneratesWithClampedResolution ==
    (body # <<>> /\ body[1].planet.generations > 0) =>
        /\ body[1].planet.meshResolution >= 2
        /\ Len(body[1].indices) > 0

\* The face whose index loop pushed the m-th index of a mesh of resolution r
FaceOfIndex(m, r) == (m - 1) \div (6 * (r - 1) * (r - 1))

\* C16: a mesh generated with resolution r >= 2 has 6 r^2 vertices and
\* 36 (r - 1)^2 indices, a multiple of 3; every index is below the vertex
\* count, and each index pushed for face f lies in [f r^2, (f + 1) r^2).
C16_MeshCounts ==
    (body # <<>> /\ body[1].planet.meshResolution >= 2) =>
        LET r == body[1].planet.meshResolution
            indices == body[1].indices
        IN  /\ Len(body[1].vertices) = 6 * r * r
            /\ Len(indices) = 36 * (r - 1) * (r - 1)
            /\ Len(indices) % 3 = 0
            /\ \A m \in 1..Len(indices) :
                    /\ indices[m] >= 0
                    /\ indices[m] < Len(body[1].vertices)
                    /\ indices[m] >= FaceOfIndex(m, r) * r * r
                    /\ indices[m] < (FaceOfIndex(m, r) + 1) * r * r

\* A generated mesh of the largest resolution
C16_Witness ==
    /\ body # <<>>
    /\ body[1].planet.meshResolution = MaxResolution
    /\ Len(body[1].indices) > 36

\* The axis (1, 2, 3) and the side (1 or -1) of the cube a face lies on
FaceAxis(face) == (face \div 2) + 1

FaceSide(face) == IF face % 2 = 0 THEN 1 ELSE -1

\* The cube points of the vertices of face f in the mesh of the planet
FacePoints(f) ==
    LET r == body[1].planet.meshResolution
    IN  {body[1].vertices[f * r * r + m] : m \in 1..(r * r)}

\* The cube points of face f that lie on the cube edge shared with face g
EdgePoints(f, g) ==
    {pt \in FacePoints(f) : pt[FaceAxis(g)] = FaceSide(g) * CoordOne}

\* Two cube points are at most d units of 2^-26 apart in every coordinate
Near(a, b, d) == \A c \in 1..3 : Abs(a[c] - b[c]) <= d

\* Every vertex of one face on an edge has a vertex of the adjacent face at
\* most d units away
SeamsWithin(d) ==
    (body # <<>> /\ body[1].planet.meshResolution >= 2) =>
        \A f, g \in Faces :
            FaceAxis(f) # FaceAxis(g) =>
                \A a \in EdgePoints(f, g) :
                    \E b \in EdgePoints(g, f) : Near(a, b, d)

\* C17 as stated: the grid vertices on the cube edge shared by two adjacent
\* faces map to the same cube point on both faces.
C17_SeamPointsIdentical == SeamsWithin(0)

\* C17 amended: they map to cube points that differ by at most one float
\* spacing below 1.0, 2^-24, in each coordinate.
C17_SeamPointsWithinRounding == SeamsWithin(4)

\* A generated mesh whose seam vertices are not all identical
C17_Witness ==
    /\ body # <<>>
    /\ body[1].planet.meshResolution >= 2
    /\ \E f, g \in Faces :
            /\ FaceAxis(f) # FaceAxis(g)
            /\ \E a \in EdgePoints(f, g) : a \notin EdgePoints(g, f)


-----------------------------------------------------------------------------
(* Claims about the level of detail *)

\* The tier of the statement: 64 if distance / (radius + 1) < 100, 32 if it
\* is < 500, 16 otherwise; distance and radius in hundredths
Tier(distance, radius) ==
    IF distance * 100 < 100 * (100 * (radius + 100)) THEN 64
    ELSE IF distance * 100 < 500 * (100 * (radius + 100)) THEN 32
    ELSE 16

\* The step is a render pass of manager 1 with the camera at cameraPos
IsRenderPass(cameraPos) ==
    /\ initialized[1]
    /\ steps' = steps + 1
    /\ lastOp'[1].op = "render"
    /\ lastOp'[1].arg = cameraPos
    /\ Len(planets'[1]) = Len(planets[1])

\* What a render pass did to planet i, seen from cameraPos
PassRespectsTier(i, cameraPos) ==
    LET before == planets[1][i].planet
        after == planets'[1][i].planet
        distance == Length(VecSub(planets[1][i].position, cameraPos))
        tier == Tier(distance, before.radius)
    IN  IF Beyond(distance, maxRenderDistance[1])
        THEN after = before
        ELSE /\ after.resolution = tier
             /\ after.generations # before.generations => before.resolution # tier
             /\ planets'[1][i].position = planets[1][i].position

\* C18: after a render pass every planet within the maximum render distance
\* has the resolution calculateLOD gives for its distance and radius (64, 32
\* or 16), its mesh was rebuilt in the pass only if its resolution differed
\* from that tier before, and the planets beyond the maximum render distance
\* keep their resolution.
C18_RenderSetsTier ==
    [][\A cameraPos \in Cameras :
            IsRenderPass(cameraPos) =>
                \A i \in 1..Len(planets[1]) : PassRespectsTier(i, cameraPos)]_vars

\* A pass has just rebuilt a mesh while another planet was out of range, and
\* the system shows two different tiers
C18_Witness ==
    /\ lastOp[1].op = "render"
    /\ lastOp[1].regens > 0
    /\ \E i \in 1..Len(planets[1]) :
            Beyond(Length(VecSub(planets[1][i].position, lastOp[1].arg)),
                   maxRenderDistance[1])
    /\ \E i, j \in 1..Len(planets[1]) :
            /\ ~Beyond(Length(VecSub(planets[1][i].position, lastOp[1].arg)),
                       maxRenderDistance[1])
            /\ planets[1][i].planet.resolution # planets[1][j].planet.resolution


-----------------------------------------------------------------------------
(* Claims about the getters *)

\* The last element of a non-empty sequence
Latest(log) == log[Len(log)]

\* C19: getSeed() returns the seed passed to the most recent
\* generateSolarSystem call, and getAsteroidDensity() / getRingDensity()
\* return the value last passed to setAsteroidDensity() / setRingDensity().
C19_GettersReturnLastValue ==
    /\ (lastOp[1].op = "getSeed" /\ genArgs[1] # NoArgs)
            => lastOp[1].arg = <<genArgs[1].seed>>
    /\ (lastOp[1].op = "getAsteroidDensity" /\ densityLog[1].belts # <<>>)
            => lastOp[1].arg = <<Latest(densityLog[1].belts)>>
    /\ (lastOp[1].op = "getRingDensity" /\ densityLog[1].rings # <<>>)
            => lastOp[1].arg = <<Latest(densityLog[1].rings)>>


-----------------------------------------------------------------------------
(* Claims about the placement stream *)

\* planetPositions of generateSolarSystem(seed, n) when no planet instance
\* and no moon is ever built
PlacedWithoutMoons(seed, n) == GenerateSolarSystem(seed, n, FALSE, <<>>, 0).placed

\* The planets of manager r stand where, and are as large as, placed says
PlanetsMatch(r, placed) ==
    /\ Len(planets[r]) = Len(placed)
    /\ \A i \in 1..Len(placed) :
            /\ planets[r][i].position = placed[i].position
            /\ planets[r][i].planet.radius = placed[i].radius

\* C20: moon generation draws nothing from the planet-placement stream: the
\* positions and radii of the planets generateSolarSystem(seed, n) produces
\* are those it produces when no moon is generated, whatever number of moons
\* each planet received.
C20_MoonsLeavePlacement ==
    \A r \in Runs :
        (initialized[r] /\ genArgs[r] # NoArgs) =>
            PlanetsMatch(r, PlacedWithoutMoons(genArgs[r].seed, genArgs[r].n))

\* A generated system of several planets in which a planet placed before the
\* last one has moons
C20_Witness ==
    \E r \in Runs :
        /\ lastOp[r].op = "generate"
        /\ genArgs[r] # NoArgs
        /\ Len(planets[r]) >= 2
        /\ \E i \in 1..(Len(planets[r]) - 1) : Len(planets[r][i].moons) >= 1
        /\ \E i, j \in 1..Len(planets[r]) :
                Len(planets[r][i].moons) # Len(planets[r][j].moons)


-----------------------------------------------------------------------------
(* Claims about the time scale *)

\* Orbit angle, rotation angle and position of a moving object
Motion(o, angle, rotation) == <<o[angle], o[rotation], o.position>>

\* Angles and positions of every planet, moon, asteroid and ring particle of
\* manager 1
Motions ==
    <<[i \in 1..Len(planets[1]) |->
          <<Motion(planets[1][i], "currentOrbitAngle", "currentRotation"),
            [j \in 1..Len(planets[1][i].moons) |->
                Motion(planets[1][i].moons[j], "currentOrbitAngle", "currentRotation")]>>],
      [i \in 1..Len(asteroidBelts[1]) |->
          [j \in 1..Len(asteroidBelts[1][i].asteroids) |->
              Motion(asteroidBelts[1][i].asteroids[j], "orbitAngle", "rotation")]],
      [i \in 1..Len(planetaryRings[1]) |->
          [j \in 1..Len(planetaryRings[1][i].particles) |->
              Motion(planetaryRings[1][i].particles[j], "orbitAngle", "orbitAngle")]]>>

\* The step is update(deltaTime) on the initialized manager 1
IsTick(deltaTime) ==
    /\ initialized[1]
    /\ steps' = steps + 1
    /\ lastOp'[1].op = "update"
    /\ lastOp'[1].arg = <<deltaTime>>

\* C21: update advances every body by deltaTime * timeScale: with time scale
\* 0 no orbit angle, rotation angle or position of a planet, moon, asteroid
\* or ring particle changes, and update(deltaTime) at time scale k leaves the
\* state update(k * deltaTime) leaves at time scale 1.
C21_TimeScaleScalesTicks ==
    [][\A deltaTime \in DeltaTimes :
            IsTick(deltaTime) =>
                /\ timeScale[1] = 0 => Motions' = Motions
                /\ LET u == SystemUpdate(sun[1][1], planets[1], asteroidBelts[1],
                                         planetaryRings[1], timeScale[1] * deltaTime)
                   IN  /\ planets'[1] = u.planets
                       /\ asteroidBelts'[1] = u.belts
                       /\ planetaryRings'[1] = u.rings]_vars


-----------------------------------------------------------------------------
(* Claims about orbital speeds *)

\* (orbitRadius - inner) / (outer - inner), in thousandths
NormalizedRadius(orbitRadius, inner, outer) ==
    ((orbitRadius - inner) * 1000) \div (outer - inner)

\* speed is base / (1 + 2 * normalizedRadius), rounded down, for some base
\* between lowest and highest; speeds in thousandths
KeplerScaled(speed, normalized, lowest, highest) ==
    /\ normalized \in 0..1000
    /\ speed * (1000 + 2 * normalized) <= highest * 1000
    /\ (speed + 1) * (1000 + 2 * normalized) > lowest * 1000

\* Every ring particle of every manager moves at base / (1 + 2 *
\* normalizedRadius), the base drawn from [0.5, 2.0]
RingsKeplerScaled ==
    \A r \in Runs : \A i \in 1..Len(planetaryRings[r]) :
        LET g == planetaryRings[r][i]
        IN  \A j \in 1..Len(g.particles) :
                KeplerScaled(g.particles[j].orbitSpeed,
                             NormalizedRadius(g.particles[j].orbitRadius,
                                              g.innerRadius, g.outerRadius),
                             500, 2000)

\* C22 as stated: every particle of an asteroid belt and of a planetary ring
\* gets orbital speed base / (1 + 2 * normalizedRadius), normalizedRadius in
\* [0, 1], so that for the same base the inner edge is three times as fast as
\* the outer edge. The base of an asteroid is drawn from [0.1, 0.5].
C22_AllKeplerScaled ==
    /\ RingsKeplerScaled
    /\ \A r \in Runs : \A i \in 1..Len(asteroidBelts[r]) :
            LET b == asteroidBelts[r][i]
            IN  \A j \in 1..Len(b.asteroids) :
                    KeplerScaled(b.asteroids[j].orbitSpeed,
                                 NormalizedRadius(b.asteroids[j].orbitRadius,
                                                  b.innerRadius, b.outerRadius),
                                 100, 500)

\* C22, amended: a ring particle gets base / (1 + 2 * normalizedRadius); an
\* asteroid gets base / orbitRadius, so that for the same base the inner edge
\* of a belt is outer / inner times as fast as its outer edge.
C22_RingsScaledBeltsByRadius ==
    /\ RingsKeplerScaled
    /\ \A r \in Runs : \A i \in 1..Len(asteroidBelts[r]) :
            LET b == asteroidBelts[r][i]
            IN  \A j \in 1..Len(b.asteroids) :
                    /\ b.asteroids[j].orbitRadius \in b.innerRadius..b.outerRadius
                    /\ b.asteroids[j].orbitSpeed * b.asteroids[j].orbitRadius
                            <= 500 * 100
                    /\ (b.asteroids[j].orbitSpeed + 1) * b.asteroids[j].orbitRadius
                            > 100 * 100

\* A generated system with rings whose particles lie in the inner and in the
\* outer half, a fast particle near the outer edge among them, and a belt
C22_Witness ==
    \E r \in Runs :
        /\ Len(asteroidBelts[r]) >= 1
        /\ Len(asteroidBelts[r][1].asteroids) >= 2
        /\ \E i \in 1..Len(planetaryRings[r]) :
                LET g == planetaryRings[r][i]
                IN  \E j, k \in 1..Len(g.particles) :
                        /\ NormalizedRadius(g.particles[j].orbitRadius,
                                            g.innerRadius, g.outerRadius) < 500
                        /\ NormalizedRadius(g.particles[k].orbitRadius,
                                            g.innerRadius, g.outerRadius) > 500
                        /\ g.particles[k].orbitSpeed * 3 > 1000


-----------------------------------------------------------------------------
(* Claims about moon orbits *)

\* C23: the planet size generateMoonsForPlanet uses is the planet's generated
\* radius, so every moon's orbit radius lies between 2 and 6 times the radius
\* of its parent planet.
C23_MoonsOrbitOutsidePlanet ==
    \A r \in Runs : \A i \in 1..Len(planets[r]) :
        \A j \in 1..Len(planets[r][i].moons) :
            /\ planets[r][i].moons[j].orbitRadius >= 2 * planets[r][i].planet.radius
            /\ planets[r][i].moons[j].orbitRadius <= 6 * planets[r][i].planet.radius


-----------------------------------------------------------------------------
(* Claims about regenerating a planet's mesh *)

\* The parameter values of the planet as they stand
CurrentParameters(b) ==
    [radius |-> b.planet.radius, resolution |-> b.planet.resolution,
     heightScale |-> b.planet.heightScale,
     noiseFrequency |-> b.planet.noiseFrequency,
     noiseOctaves |-> b.planet.noiseOctaves, noise |-> b.noise]

\* C24: after any sequence of setRadius, setResolution, setNoise,
\* setHeightScale, setNoiseFrequency and setNoiseOctaves calls followed by
\* generate(), the stored mesh is the mesh of the current parameter values.
C24_GenerateUsesCurrentParameters ==
    (body # <<>> /\ body[1].last = "generate") =>
        body[1].built = <<CurrentParameters(body[1])>>


-----------------------------------------------------------------------------
(* Claims about the planet of a ring system *)

\* C25: every planetary ring system created by generateSolarSystem is centred
\* on a planet of the generated system that is a gas giant: its planet
\* position and planet radius are the position and radius of some generated
\* planet of type 1.
C25_RingsAroundGasGiants ==
    \A r \in Runs : \A g \in 1..Len(planetaryRings[r]) :
        \E i \in 1..Len(planets[r]) :
            /\ planets[r][i].type = 1
            /\ planets[r][i].position = planetaryRings[r][g].planetPosition
            /\ planets[r][i].planet.radius = planetaryRings[r][g].planetRadius


-----------------------------------------------------------------------------
(* Claims about visibility *)

\* The belts or ring systems s, all of them shown
Shown(s) == [i \in 1..Len(s) |-> [s[i] EXCEPT !.visible = TRUE]]

\* C26: visibility only affects rendering: an update tick moves the
\* asteroids of a hidden belt and the particles of a hidden ring system
\* exactly as it moves them when the structure is visible.
C26_HiddenStructuresAdvance ==
    [][\A deltaTime \in DeltaTimes :
            IsTick(deltaTime) =>
                LET u == SystemUpdate(sun[1][1], planets[1], Shown(asteroidBelts[1]),
                                      Shown(planetaryRings[1]), timeScale[1] * deltaTime)
                IN  /\ \A i \in 1..Len(asteroidBelts[1]) :
                            asteroidBelts'[1][i].asteroids = u.belts[i].asteroids
                    /\ \A i \in 1..Len(planetaryRings[1]) :
                            planetaryRings'[1][i].particles = u.rings[i].particles]_vars

\* C27: each belt's visible flag is the manager's asteroid-visibility flag
\* and each ring system's visible flag is the manager's ring-visibility flag,
\* also after a generateSolarSystem call that follows a visibility setter.
C27_FlagsMatchManager ==
    /\ \A i \in 1..Len(asteroidBelts[1]) :
            asteroidBelts[1][i].visible = asteroidsVisible[1]
    /\ \A i \in 1..Len(planetaryRings[1]) :
            planetaryRings[1][i].visible = ringsVisible[1]


-----------------------------------------------------------------------------
(* Claims about key queries in the frame loop *)

\* The key event action arrived during the pollEvents call of the frame f
Arrived(f, action) == \E k \in 1..Len(f.events) : f.events[k] = action

\* C28: a key press delivered during pollEvents is reported by isKeyPressed
\* as true in App::update of that frame and of no other frame; in the frames
\* after it, while the key stays down, the key is reported as held and not
\* as pressed.
C28_PressSeenInOneFrame ==
    \A k \in 1..Len(input.seen) :
        LET f == input.seen[k]
        IN  /\ (f.events # <<>> /\ f.events[Len(f.events)] = "GLFW_PRESS")
                    => f.queries.pressed
            /\ f.queries.pressed => Arrived(f, "GLFW_PRESS")
            /\ (f.down /\ ~Arrived(f, "GLFW_PRESS"))
                    => (f.queries.held /\ ~f.queries.pressed)

\* C29: isKeyReleased is true during App::update of the frame in which a
\* release event arrived for a key that was pressed or held, and false in
\* every other frame.
C29_ReleaseSeenInItsFrame ==
    \A k \in 1..Len(input.seen) :
        input.seen[k].queries.released = Arrived(input.seen[k], "GLFW_RELEASE")

-----------------------------------------------------------------------------
(* Claims about cinematic sequences *)

\* C30: after playCinematicSequence() on a camera with at least one keyframe
\* isCinematicPlaying() is true and the mode is CINEMATIC, and an update call
\* leaves both so unless the cinematic time has reached the duration.
C30_CinematicPlaysUntilItsEnd ==
    [][/\ (camera'.last = "playCinematicSequence" /\ camera'.cinematicKeyframes # <<>>)
            => (camera'.cinematicPlaying /\ camera'.currentMode = "CINEMATIC")
       /\ (/\ camera.cinematicPlaying
           /\ camera.currentMode = "CINEMATIC"
           /\ camera'.last = "update"
           /\ camera'.cinematicTime < camera'.cinematicDuration)
            => (camera'.cinematicPlaying /\ camera'.currentMode = "CINEMATIC")]_vars

=============================================================================
